---- MODULE Spec2Model ----
(***************************************************************************)
(* A model of stitch-craft's App.tsx: the layer store, the undo/redo       *)
(* history, the asynchronous image import, the property panel's batch      *)
(* update with its center-preserving recentering, and the bounding-box     *)
(* helper calculateRotatedDimensions.                                      *)
(*                                                                         *)
(* JavaScript numbers are modelled as records [k, v]: k = "fin" with v the *)
(* value in hundredths (Unit), or k = "nan" / "pinf" / "ninf" for the IEEE *)
(* specials.  Addition and subtraction of finite values are exact;         *)
(* products are rounded to the nearest hundredth.                          *)
(***************************************************************************)
EXTENDS Integers, Sequences, FiniteSets, TLC

\* ------------------------------------------------------------------------
\* JavaScript numbers
\* ------------------------------------------------------------------------

\* Hundredths: 1.00 is F(Unit).
Unit == 100

\* Math.sin / Math.cos values are kept in ten-thousandths.
TrigUnit == 10000

F(v) == [k |-> "fin", v |-> v]

NaN == [k |-> "nan", v |-> 0]

PInf == [k |-> "pinf", v |-> 0]

NInf == [k |-> "ninf", v |-> 0]

IsFin(a) == a.k = "fin"

\* isNaN(a)
IsNaN(a) == a.k = "nan"

\* -1, 0, 1: the sign of a non-NaN number
Sgn(a) ==
  IF a.k = "pinf" THEN 1
  ELSE IF a.k = "ninf" THEN -1
  ELSE IF a.v > 0 THEN 1 ELSE IF a.v < 0 THEN -1 ELSE 0

AbsInt(n) == IF n < 0 THEN -n ELSE n

\* n / d rounded to the nearest integer (d > 0), halves away from zero
RoundDiv(n, d) ==
  IF n >= 0 THEN (2 * n + d) \div (2 * d) ELSE -((2 * (-n) + d) \div (2 * d))

\* a + b
FAdd(a, b) ==
  IF IsNaN(a) \/ IsNaN(b) THEN NaN
  ELSE IF IsFin(a) /\ IsFin(b) THEN F(a.v + b.v)
  ELSE IF IsFin(a) THEN b
  ELSE IF IsFin(b) THEN a
  ELSE IF a.k = b.k THEN a ELSE NaN

\* -a
FNeg(a) ==
  IF IsNaN(a) THEN NaN
  ELSE IF a.k = "pinf" THEN NInf
  ELSE IF a.k = "ninf" THEN PInf
  ELSE F(-a.v)

\* a - b
FSub(a, b) == FAdd(a, FNeg(b))

\* a * b
FMul(a, b) ==
  IF IsNaN(a) \/ IsNaN(b) THEN NaN
  ELSE IF IsFin(a) /\ IsFin(b) THEN F(RoundDiv(a.v * b.v, Unit))
  ELSE IF Sgn(a) * Sgn(b) = 0 THEN NaN
  ELSE IF Sgn(a) * Sgn(b) > 0 THEN PInf ELSE NInf

\* a / 2
FHalf(a) == IF IsFin(a) THEN F(RoundDiv(a.v, 2)) ELSE a

\* Math.abs(a)
FAbs(a) ==
  IF IsNaN(a) THEN NaN
  ELSE IF IsFin(a) THEN F(AbsInt(a.v)) ELSE PInf

\* a < b (false when either is NaN)
FLt(a, b) ==
  IF IsNaN(a) \/ IsNaN(b) THEN FALSE
  ELSE IF IsFin(a) /\ IsFin(b) THEN a.v < b.v
  ELSE IF a.k = b.k THEN FALSE
  ELSE a.k = "ninf" \/ b.k = "pinf"

\* a === b (false when either is NaN)
FEq(a, b) == ~IsNaN(a) /\ ~IsNaN(b) /\ a = b

\* a % m for a finite m > 0: the result takes the sign of the dividend
JsRem(a, m) ==
  IF ~IsFin(a) THEN NaN
  ELSE IF a.v >= 0 THEN F(a.v % m.v) ELSE F(-((-a.v) % m.v))

\* ------------------------------------------------------------------------
\* Math.sin and Math.cos, in absolute value
\* ------------------------------------------------------------------------

\* |sin| and |cos| of a first-quadrant angle given in hundredths of a degree,
\* in ten-thousandths, for the angles the model draws.
QuadrantTable(q) ==
  CASE q = 0    -> [sin |-> 0,     cos |-> 10000]
    [] q = 4    -> [sin |-> 7,     cos |-> 10000]
    [] q = 5    -> [sin |-> 9,     cos |-> 10000]
    [] q = 3000 -> [sin |-> 5000,  cos |-> 8660]
    [] q = 3700 -> [sin |-> 6018,  cos |-> 7986]
    [] q = 4500 -> [sin |-> 7071,  cos |-> 7071]
    [] q = 5300 -> [sin |-> 7986,  cos |-> 6018]
    [] q = 6000 -> [sin |-> 8660,  cos |-> 5000]
    [] q = 8995 -> [sin |-> 10000, cos |-> 9]
    [] q = 8996 -> [sin |-> 10000, cos |-> 7]
    [] q = 9000 -> [sin |-> 10000, cos |-> 0]

\* Fold an angle (hundredths of a degree, >= 0) into the first quadrant.
Fold(a) ==
  LET h == a % 18000 IN IF h > 9000 THEN 18000 - h ELSE h

\* Math.PI is not pi, so Math.sin and Math.cos of a non-zero multiple of a
\* right angle miss the exact 0 by a residue (Math.cos(Math.PI / 2) is
\* 6.1e-17, Math.sin(Math.PI) is 1.2e-16); the residue is kept as one unit
\* in the last place.  Math.sin(0) is exactly 0.
Residue(a, t) == IF t = 0 /\ a # 0 THEN 1 ELSE t

\* Math.abs(Math.sin(angleRad)) for angleRad = |rotation| * PI / 180
AbsSin(rotation) ==
  IF ~IsFin(rotation) THEN NaN
  ELSE LET a == AbsInt(rotation.v)
       IN [k |-> "fin", v |-> Residue(a, QuadrantTable(Fold(a)).sin)]

\* Math.abs(Math.cos(angleRad)) for angleRad = |rotation| * PI / 180
AbsCos(rotation) ==
  IF ~IsFin(rotation) THEN NaN
  ELSE LET a == AbsInt(rotation.v)
       IN [k |-> "fin", v |-> Residue(a, QuadrantTable(Fold(a)).cos)]

\* a * t for t a value of AbsSin / AbsCos
FMulTrig(a, t) ==
  IF IsNaN(a) \/ IsNaN(t) THEN NaN
  ELSE IF IsFin(a) THEN F(RoundDiv(a.v * t.v, TrigUnit))
  ELSE IF t.v = 0 THEN NaN
  ELSE a

\* ------------------------------------------------------------------------
\* calculateRotatedDimensions
\* ------------------------------------------------------------------------

\* a variant for C9: the normalization without "if (r < 0) r += 360"
NormalizeNoWrap(rotation) == JsRem(rotation, F(360 * Unit))

\* let r = rotation % 360; if (r < 0) r += 360;
NormalizeRotation(rotation) ==
  LET r == JsRem(rotation, F(360 * Unit))
  IN IF FLt(r, F(0)) THEN FAdd(r, F(360 * Unit)) ELSE r

\* isNaN(scale) ? 1 : scale
SanitizeScale(scale) == IF IsNaN(scale) THEN F(Unit) ELSE scale

\* isNaN(width) ? 0 : width
SanitizeDim(d) == IF IsNaN(d) THEN F(0) ELSE d

\* Math.abs(r - deg) < 0.05
Near(r, deg) == FLt(FAbs(FSub(r, F(deg * Unit))), F(5))

\* a variant for C32: the sine and the cosine change places
TrigDimensionsSwapped(scaledW, scaledH, rotation) ==
  LET cos == AbsCos(rotation)
      sin == AbsSin(rotation)
  IN [width  |-> FAdd(FMulTrig(scaledH, cos), FMulTrig(scaledW, sin)),
      height |-> FAdd(FMulTrig(scaledH, sin), FMulTrig(scaledW, cos))]

\* the trigonometric branch
TrigDimensions(scaledW, scaledH, rotation) ==
  LET cos == AbsCos(rotation)
      sin == AbsSin(rotation)
  IN [width  |-> FAdd(FMulTrig(scaledH, sin), FMulTrig(scaledW, cos)),
      height |-> FAdd(FMulTrig(scaledH, cos), FMulTrig(scaledW, sin))]

CalculateRotatedDimensions(width, height, rotation, scale) ==
  LET r == NormalizeRotation(rotation)
      s == SanitizeScale(scale)
      w == SanitizeDim(width)
      h == SanitizeDim(height)
      scaledW == FMul(w, s)
      scaledH == FMul(h, s)
  IN IF Near(r, 0) \/ Near(r, 180) \/ Near(r, 360)
       THEN [width |-> scaledW, height |-> scaledH]
     ELSE IF Near(r, 90) \/ Near(r, 270)
       THEN [width |-> scaledH, height |-> scaledW]
     ELSE TrigDimensions(scaledW, scaledH, rotation)

\* the bounding box of a layer, from its stored rotation and scale
BBox(l) == CalculateRotatedDimensions(l.width, l.height, l.rotation, l.scale)

\* a / b
FDiv(a, b) ==
  IF IsNaN(a) \/ IsNaN(b) THEN NaN
  ELSE IF IsFin(a) /\ IsFin(b) THEN
    IF b.v = 0 THEN (IF a.v = 0 THEN NaN ELSE IF a.v > 0 THEN PInf ELSE NInf)
    ELSE IF b.v > 0 THEN F(RoundDiv(a.v * Unit, b.v))
    ELSE F(RoundDiv(-(a.v * Unit), -b.v))
  ELSE IF IsFin(a) THEN F(0)
  ELSE IF ~IsFin(b) THEN NaN
  ELSE IF Sgn(a) * (IF b.v < 0 THEN -1 ELSE 1) > 0 THEN PInf ELSE NInf

\* Math.min(a, b), Math.max(a, b)
FMin(a, b) == IF IsNaN(a) \/ IsNaN(b) THEN NaN ELSE IF FLt(b, a) THEN b ELSE a

FMax(a, b) == IF IsNaN(a) \/ IsNaN(b) THEN NaN ELSE IF FLt(a, b) THEN b ELSE a

\* ------------------------------------------------------------------------
\* State of the App component
\* ------------------------------------------------------------------------

VARIABLES
  layers,                \* Layer[]: the ordered layer sequence (later = on top)
  selectedLayerIds,      \* Set<string>
  checkedLayers,         \* Set<string>
  draggedLayerId,        \* string | null: layer-list drag and drop
  history,               \* Layer[][]: the undo stack (past), newest last
  future,                \* Layer[][]: the redo stack, next first
  zoom,                  \* number
  pan,                   \* Coordinates
  isSpacePressed,
  isDraggingCanvas,
  isDraggingLayer,
  isSelecting,
  selectionBox,          \* {start, current} | null
  dragStart,             \* Coordinates
  initialPan,            \* Coordinates
  initialLayerPositions, \* Record<string, Coordinates>
  exportModal,           \* {show, data, filename, type}
  uploads,               \* the handleFileUpload calls whose images are still decoding
  nextId,                \* the ids drawn so far (Math.random ids are fresh)
  geomIn,                \* arguments of a direct calculateRotatedDimensions call
  geomOut,               \* its result
  lastOp,                \* observer: the handler that ran last
  steps,                 \* observer: the number of handlers that ran
  trail,                 \* observer: the layer sequences around the last recorded mutations
  run,                   \* observer: the undo/redo round trip in progress
  down                   \* observer: what the last pointer-down found and left

storeVars == <<layers, selectedLayerIds, checkedLayers, history, future>>

viewVars == <<zoom, pan>>

pointerVars ==
  <<isDraggingCanvas, isDraggingLayer, isSelecting, selectionBox, dragStart,
    initialPan, initialLayerPositions>>

geomVars == <<geomIn, geomOut>>

observerVars == <<trail, run, down>>

appVars ==
  <<storeVars, viewVars, pointerVars, draggedLayerId, isSpacePressed, uploads, nextId,
    exportModal>>

vars ==
  <<layers, selectedLayerIds, checkedLayers, draggedLayerId, history, future,
    zoom, pan, isSpacePressed, isDraggingCanvas, isDraggingLayer, isSelecting,
    selectionBox, dragStart, initialPan, initialLayerPositions, exportModal,
    uploads, nextId, geomIn, geomOut, lastOp, steps, trail, run, down>>

\* null for an id (ids are 1, 2, ...)
NoLayer == 0

\* null for an object: the empty list; a present object is a one-element list
Null == <<>>

Some(v) == <<v>>

Origin == [x |-> F(0), y |-> F(0)]

NoRun == [phase |-> "idle", k |-> 0, n |-> 0, base |-> <<>>]

\* no pointer-down yet
NoDown ==
  [at |-> Origin, marquee |-> FALSE, drag |-> FALSE, base |-> {}, selected |-> {},
   positions |-> <<>>]

NoGeom == [width |-> F(0), height |-> F(0), rotation |-> F(0), scale |-> F(Unit)]

\* useState initial values
InitApp ==
  /\ layers = <<>>
  /\ selectedLayerIds = {}
  /\ checkedLayers = {}
  /\ draggedLayerId = NoLayer
  /\ history = <<>>
  /\ future = <<>>
  /\ zoom = F(Unit)
  /\ pan = Origin
  /\ isSpacePressed = FALSE
  /\ isDraggingCanvas = FALSE
  /\ isDraggingLayer = FALSE
  /\ isSelecting = FALSE
  /\ selectionBox = Null
  /\ dragStart = Origin
  /\ initialPan = Origin
  /\ initialLayerPositions = <<>>
  /\ exportModal = [show |-> FALSE, data |-> "", filename |-> "", type |-> ""]
  /\ uploads = <<>>
  /\ nextId = 0
  /\ geomOut = Null
  /\ lastOp = "init"
  /\ steps = 0
  /\ trail = <<layers>>
  /\ run = NoRun
  /\ down = NoDown

Init == InitApp /\ geomIn = NoGeom

\* ------------------------------------------------------------------------
\* Sequence and set helpers
\* ------------------------------------------------------------------------

LayerIds(ls) == {ls[i].id : i \in 1..Len(ls)}

\* layers.findIndex(l => l.id === id), 1-based, 0 for -1
FindIndex(ls, id) ==
  IF id \in LayerIds(ls)
  THEN CHOOSE i \in 1..Len(ls) : ls[i].id = id /\ \A j \in 1..(i - 1) : ls[j].id # id
  ELSE 0

\* ------------------------------------------------------------------------
\* History
\* ------------------------------------------------------------------------

\* if (newHistory.length > 50) newHistory.shift()
HistoryLimit == 50

\* a variant for C4: addToHistory without setFuture([])
AddToHistoryKeepFuture ==
  /\ history' =
       LET newHistory == Append(history, layers)
       IN IF Len(newHistory) > HistoryLimit THEN Tail(newHistory) ELSE newHistory
  /\ future' = future

\* a variant for C5 and C39: addToHistory without the shift at the cap
AddToHistoryNoCap ==
  /\ history' = Append(history, layers)
  /\ future' = <<>>

\* setHistory(prev => [...prev, layers] capped); setFuture([])
AddToHistory ==
  /\ history' =
       LET newHistory == Append(history, layers)
       IN IF Len(newHistory) > HistoryLimit THEN Tail(newHistory) ELSE newHistory
  /\ future' = <<>>

\* a variant for C1: undo that puts the current sequence at the back of future
UndoStoreAtBack ==
  IF Len(history) = 0 THEN UNCHANGED <<layers, history, future>>
  ELSE /\ future' = Append(future, layers)
       /\ history' = SubSeq(history, 1, Len(history) - 1)
       /\ layers' = history[Len(history)]

\* undo()
UndoStore ==
  IF Len(history) = 0 THEN UNCHANGED <<layers, history, future>>
  ELSE /\ future' = <<layers>> \o future
       /\ history' = SubSeq(history, 1, Len(history) - 1)
       /\ layers' = history[Len(history)]

\* a variant for C27: redo without the guard on an empty future
RedoStoreUnguarded ==
  /\ history' = Append(history, layers)
  /\ future' = IF Len(future) = 0 THEN <<>> ELSE Tail(future)
  /\ layers' = IF Len(future) = 0 THEN <<>> ELSE future[1]

\* redo()
RedoStore ==
  IF Len(future) = 0 THEN UNCHANGED <<layers, history, future>>
  ELSE /\ history' = Append(history, layers)
       /\ future' = Tail(future)
       /\ layers' = future[1]

\* ------------------------------------------------------------------------
\* Import
\* ------------------------------------------------------------------------

\* the Layer that img.onload builds for a decoded file
NewLayer(id, file) ==
  [id |-> id, name |-> file.name, x |-> F(0), y |-> F(0), rotation |-> F(0),
   scale |-> F(Unit), opacity |-> F(Unit), visible |-> TRUE,
   width |-> file.width, height |-> file.height]

\* handleFileUpload: files is e.target.files; the closure of the onload
\* callbacks holds newLayers, loadedCount and this render's selectedLayerIds
HandleFileUpload(files) ==
  /\ IF Len(files) > 0
       THEN /\ AddToHistory
            /\ uploads' = Append(uploads,
                 [files |-> files, loaded |-> {}, newLayers |-> <<>>,
                  loadedCount |-> 0, selectedLayerIds |-> selectedLayerIds])
       ELSE UNCHANGED <<history, future, uploads>>
  /\ UNCHANGED <<layers, selectedLayerIds, checkedLayers, draggedLayerId, nextId,
                 isSpacePressed>>
  /\ UNCHANGED <<viewVars, pointerVars>>

\* a variant for C12: img.onload that adds each layer as soon as it is decoded
ImgOnloadEager(b, i) ==
  /\ b \in 1..Len(uploads)
  /\ i \in 1..Len(uploads[b].files)
  /\ i \notin uploads[b].loaded
  /\ uploads[b].files[i].decodes
  /\ LET u == uploads[b]
         layer == NewLayer(nextId + 1, u.files[i])
     IN /\ nextId' = nextId + 1
        /\ layers' = Append(layers, layer)
        /\ uploads' =
             IF u.loadedCount + 1 = Len(u.files)
               THEN SubSeq(uploads, 1, b - 1) \o SubSeq(uploads, b + 1, Len(uploads))
               ELSE [uploads EXCEPT ![b] =
                      [u EXCEPT !.loaded = u.loaded \cup {i},
                                !.newLayers = Append(u.newLayers, layer),
                                !.loadedCount = u.loadedCount + 1]]
  /\ UNCHANGED <<selectedLayerIds, checkedLayers, draggedLayerId, history, future,
                 isSpacePressed>>
  /\ UNCHANGED <<viewVars, pointerVars>>

\* img.onload of file i of upload b (a file that does not decode never calls it)
ImgOnload(b, i) ==
  /\ b \in 1..Len(uploads)
  /\ i \in 1..Len(uploads[b].files)
  /\ i \notin uploads[b].loaded
  /\ uploads[b].files[i].decodes
  /\ LET u == uploads[b]
         newLayers == Append(u.newLayers, NewLayer(nextId + 1, u.files[i]))
         loadedCount == u.loadedCount + 1
     IN /\ nextId' = nextId + 1
        /\ IF loadedCount = Len(u.files)
             THEN /\ layers' = layers \o newLayers
                  /\ selectedLayerIds' =
                       IF Len(newLayers) > 0 /\ Cardinality(u.selectedLayerIds) = 0
                         THEN {newLayers[1].id}
                         ELSE selectedLayerIds
                  /\ uploads' = SubSeq(uploads, 1, b - 1) \o SubSeq(uploads, b + 1, Len(uploads))
             ELSE /\ uploads' = [uploads EXCEPT ![b] =
                       [u EXCEPT !.loaded = u.loaded \cup {i},
                                 !.newLayers = newLayers,
                                 !.loadedCount = loadedCount]]
                  /\ UNCHANGED <<layers, selectedLayerIds>>
  /\ UNCHANGED <<checkedLayers, draggedLayerId, history, future, isSpacePressed>>
  /\ UNCHANGED <<viewVars, pointerVars>>

\* ------------------------------------------------------------------------
\* Layer store
\* ------------------------------------------------------------------------

\* { ...l, ...changes }
Merge(l, changes) ==
  [f \in DOMAIN l |-> IF f \in DOMAIN changes THEN changes[f] ELSE l[f]]

\* updateLayer(id, changes, recordHistory)
UpdateLayer(id, changes, recordHistory) ==
  /\ IF recordHistory THEN AddToHistory ELSE UNCHANGED <<history, future>>
  /\ layers' = [i \in 1..Len(layers) |->
                  IF layers[i].id = id THEN Merge(layers[i], changes) ELSE layers[i]]
  /\ UNCHANGED <<selectedLayerIds, checkedLayers, draggedLayerId, uploads, nextId,
                 isSpacePressed>>
  /\ UNCHANGED <<viewVars, pointerVars>>

\* a variant for C36: the eye icon calls updateLayer with recordHistory left at true
ToggleVisibleRecording(i) ==
  /\ i \in 1..Len(layers)
  /\ UpdateLayer(layers[i].id, [visible |-> ~layers[i].visible], TRUE)

\* the layer-list eye icon: updateLayer(layer.id, { visible: !layer.visible }, false)
ToggleVisible(i) ==
  /\ i \in 1..Len(layers)
  /\ UpdateLayer(layers[i].id, [visible |-> ~layers[i].visible], FALSE)

\* the top-left that keeps the center of l's bounding box when its rotation
\* and scale become newRotation and newScale
RecenteredLayer(l, changes, newRotation, newScale) ==
  LET oldDims == CalculateRotatedDimensions(l.width, l.height, l.rotation, l.scale)
      oldCenterX == FAdd(l.x, FHalf(oldDims.width))
      oldCenterY == FAdd(l.y, FHalf(oldDims.height))
      newDims == CalculateRotatedDimensions(l.width, l.height, newRotation, newScale)
      newX == FSub(oldCenterX, FHalf(newDims.width))
      newY == FSub(oldCenterY, FHalf(newDims.height))
  IN [Merge(l, changes) EXCEPT !.x = newX, !.y = newY]

\* a variant for C31: the rotation is stored normalized into [0, 360)
UpdatedLayerNormalizing(l, changes) ==
  IF "rotation" \in DOMAIN changes
    THEN RecenteredLayer(l, [changes EXCEPT !.rotation = NormalizeRotation(changes.rotation)],
                         changes.rotation, l.scale)
  ELSE IF "scale" \in DOMAIN changes
    THEN RecenteredLayer(l, changes, l.rotation, changes.scale)
  ELSE Merge(l, changes)

\* the map callback of updateSelectedLayers for a selected layer
UpdatedLayer(l, changes) ==
  IF "rotation" \in DOMAIN changes
    THEN RecenteredLayer(l, changes, changes.rotation, l.scale)
  ELSE IF "scale" \in DOMAIN changes
    THEN RecenteredLayer(l, changes, l.rotation, changes.scale)
  ELSE Merge(l, changes)

\* updateSelectedLayers(changes)
UpdateSelectedLayers(changes) ==
  /\ AddToHistory
  /\ layers' = [i \in 1..Len(layers) |->
                  IF layers[i].id \notin selectedLayerIds THEN layers[i]
                  ELSE UpdatedLayer(layers[i], changes)]
  /\ UNCHANGED <<selectedLayerIds, checkedLayers, draggedLayerId, uploads, nextId,
                 isSpacePressed>>
  /\ UNCHANGED <<viewVars, pointerVars>>

\* a variant for C25: deleteSelectedLayers that empties the checked set
DeleteSelectedStoreClearingChecks ==
  IF Cardinality(selectedLayerIds) = 0
    THEN UNCHANGED <<layers, history, future, checkedLayers, selectedLayerIds>>
    ELSE /\ AddToHistory
         /\ layers' = LET keep(l) == l.id \notin selectedLayerIds
                      IN SelectSeq(layers, keep)
         /\ checkedLayers' = {}
         /\ selectedLayerIds' = {}

\* the store part of deleteSelectedLayers()
DeleteSelectedStore ==
  IF Cardinality(selectedLayerIds) = 0
    THEN UNCHANGED <<layers, history, future, checkedLayers, selectedLayerIds>>
    ELSE /\ AddToHistory
         /\ layers' = LET keep(l) == l.id \notin selectedLayerIds
                      IN SelectSeq(layers, keep)
         /\ checkedLayers' = checkedLayers \ selectedLayerIds
         /\ selectedLayerIds' = {}

\* deleteSelectedLayers(), from the property panel's Delete button
DeleteSelectedLayers ==
  /\ DeleteSelectedStore
  /\ UNCHANGED <<draggedLayerId, uploads, nextId, isSpacePressed>>
  /\ UNCHANGED <<viewVars, pointerVars>>

\* a variant for C26: the two layers change places
SpliceSwapping(ls, fromIndex, toIndex) ==
  [i \in 1..Len(ls) |->
     IF i = fromIndex THEN ls[toIndex] ELSE IF i = toIndex THEN ls[fromIndex] ELSE ls[i]]

\* newLayers.splice(fromIndex, 1); newLayers.splice(toIndex, 0, removed)
Splice(ls, fromIndex, toIndex) ==
  LET removed == ls[fromIndex]
      rest == SubSeq(ls, 1, fromIndex - 1) \o SubSeq(ls, fromIndex + 1, Len(ls))
  IN SubSeq(rest, 1, toIndex - 1) \o <<removed>> \o SubSeq(rest, toIndex, Len(rest))

\* reorderLayers(fromIndex, toIndex), indices counted from 1
ReorderLayers(fromIndex, toIndex) ==
  /\ AddToHistory
  /\ layers' = Splice(layers, fromIndex, toIndex)

\* handleDragStart(e, id)
HandleDragStart(id) ==
  /\ draggedLayerId' = id
  /\ UNCHANGED <<storeVars, uploads, nextId, isSpacePressed>>
  /\ UNCHANGED <<viewVars, pointerVars>>

\* handleDrop(e, targetId)
HandleDrop(targetId) ==
  /\ IF draggedLayerId = NoLayer \/ draggedLayerId = targetId
       THEN UNCHANGED <<layers, history, future, draggedLayerId>>
       ELSE LET fromIndex == FindIndex(layers, draggedLayerId)
                toIndex == FindIndex(layers, targetId)
            IN /\ IF fromIndex # 0 /\ toIndex # 0
                    THEN ReorderLayers(fromIndex, toIndex)
                    ELSE UNCHANGED <<layers, history, future>>
               /\ draggedLayerId' = NoLayer
  /\ UNCHANGED <<selectedLayerIds, checkedLayers, uploads, nextId, isSpacePressed>>
  /\ UNCHANGED <<viewVars, pointerVars>>

\* handleDragEnd()
HandleDragEnd ==
  /\ draggedLayerId' = NoLayer
  /\ UNCHANGED <<storeVars, uploads, nextId, isSpacePressed>>
  /\ UNCHANGED <<viewVars, pointerVars>>

\* toggleLayerCheck(id)
ToggleLayerCheck(id) ==
  /\ checkedLayers' =
       IF id \in checkedLayers THEN checkedLayers \ {id} ELSE checkedLayers \cup {id}
  /\ UNCHANGED <<layers, selectedLayerIds, history, future, draggedLayerId, uploads,
                 nextId, isSpacePressed>>
  /\ UNCHANGED <<viewVars, pointerVars>>

\* toggleAllChecks()
ToggleAllChecks ==
  /\ checkedLayers' =
       IF Cardinality(checkedLayers) = Len(layers) /\ Len(layers) > 0
         THEN {}
         ELSE LayerIds(layers)
  /\ UNCHANGED <<layers, selectedLayerIds, history, future, draggedLayerId, uploads,
                 nextId, isSpacePressed>>
  /\ UNCHANGED <<viewVars, pointerVars>>

\* toggleLayerSelection(id, multi), a click on a row of the layer list
ToggleLayerSelection(id, multi) ==
  /\ selectedLayerIds' =
       IF multi
         THEN (IF id \in selectedLayerIds
                 THEN selectedLayerIds \ {id}
                 ELSE selectedLayerIds \cup {id})
         ELSE {id}
  /\ UNCHANGED <<layers, checkedLayers, history, future, draggedLayerId, uploads,
                 nextId, isSpacePressed>>
  /\ UNCHANGED <<viewVars, pointerVars>>

\* the toolbar's Undo button
Undo ==
  /\ UndoStore
  /\ UNCHANGED <<selectedLayerIds, checkedLayers, draggedLayerId, uploads, nextId,
                 isSpacePressed>>
  /\ UNCHANGED <<viewVars, pointerVars>>

\* the toolbar's Redo button
Redo ==
  /\ RedoStore
  /\ UNCHANGED <<selectedLayerIds, checkedLayers, draggedLayerId, uploads, nextId,
                 isSpacePressed>>
  /\ UNCHANGED <<viewVars, pointerVars>>

\* ------------------------------------------------------------------------
\* Keyboard
\* ------------------------------------------------------------------------

\* setLayers(prev => prev.map(l => selectedLayerIds.has(l.id) ? {...l, [axis]: l[axis] + delta} : l))
Nudged(ls, axis, delta) ==
  [i \in 1..Len(ls) |->
     IF ls[i].id \in selectedLayerIds
       THEN [ls[i] EXCEPT ![axis] = FAdd(ls[i][axis], F(delta * Unit))]
       ELSE ls[i]]

\* the window keydown listener; e.ctrlKey stands for e.ctrlKey || e.metaKey and
\* e.inInput for a target that is an INPUT, a TEXTAREA or content-editable
HandleKeyDown(e) ==
  /\ IF e.inInput
       THEN UNCHANGED <<storeVars, isSpacePressed>>
       ELSE /\ isSpacePressed' = IF e.code = "Space" THEN TRUE ELSE isSpacePressed
            /\ IF e.ctrlKey /\ e.key = "z"
                 THEN /\ IF e.shiftKey THEN RedoStore ELSE UndoStore
                      /\ UNCHANGED <<selectedLayerIds, checkedLayers>>
               ELSE IF e.ctrlKey /\ e.key = "y"
                 THEN /\ RedoStore
                      /\ UNCHANGED <<selectedLayerIds, checkedLayers>>
               ELSE IF Cardinality(selectedLayerIds) = 0
                 THEN UNCHANGED storeVars
               ELSE LET shiftMultiplier == IF e.shiftKey THEN 10 ELSE 1
                    IN CASE e.key = "ArrowUp" ->
                              /\ layers' = Nudged(layers, "y", -(1 * shiftMultiplier))
                              /\ UNCHANGED <<selectedLayerIds, checkedLayers, history, future>>
                         [] e.key = "ArrowDown" ->
                              /\ layers' = Nudged(layers, "y", 1 * shiftMultiplier)
                              /\ UNCHANGED <<selectedLayerIds, checkedLayers, history, future>>
                         [] e.key = "ArrowLeft" ->
                              /\ layers' = Nudged(layers, "x", -(1 * shiftMultiplier))
                              /\ UNCHANGED <<selectedLayerIds, checkedLayers, history, future>>
                         [] e.key = "ArrowRight" ->
                              /\ layers' = Nudged(layers, "x", 1 * shiftMultiplier)
                              /\ UNCHANGED <<selectedLayerIds, checkedLayers, history, future>>
                         [] e.key \in {"Delete", "Backspace"} -> DeleteSelectedStore
                         [] OTHER -> UNCHANGED storeVars
  /\ UNCHANGED <<draggedLayerId, uploads, nextId>>
  /\ UNCHANGED <<viewVars, pointerVars>>

\* the window keyup listener
HandleKeyUp(e) ==
  /\ IF e.code = "Space"
       THEN /\ isSpacePressed' = FALSE
            /\ isDraggingCanvas' = FALSE
       ELSE UNCHANGED <<isSpacePressed, isDraggingCanvas>>
  /\ UNCHANGED <<storeVars, draggedLayerId, uploads, nextId, viewVars>>
  /\ UNCHANGED <<isDraggingLayer, isSelecting, selectionBox, dragStart, initialPan,
                 initialLayerPositions>>

\* ------------------------------------------------------------------------
\* Pointer
\* ------------------------------------------------------------------------

\* canvasRef.current.getBoundingClientRect()
CanvasRect == [left |-> F(0), top |-> F(0)]

\* a variant for C20: a plain click always collapses the selection to the layer
ClickSelectionCollapsing(layerId, isMultiSelect) ==
  IF isMultiSelect
    THEN (IF layerId \in selectedLayerIds
            THEN selectedLayerIds \ {layerId}
            ELSE selectedLayerIds \cup {layerId})
    ELSE {layerId}

\* the selection update of handleMouseDown's layer case: newSet
ClickSelection(layerId, isMultiSelect) ==
  IF isMultiSelect
    THEN (IF layerId \in selectedLayerIds
            THEN selectedLayerIds \ {layerId}
            ELSE selectedLayerIds \cup {layerId})
    ELSE IF layerId \notin selectedLayerIds THEN {layerId}
    ELSE selectedLayerIds

\* a variant for C19: every click on a layer starts a drag
EndsUpSelectedAlways(layerId, newSet) == TRUE

\* if (newSet.has(layerId))
EndsUpSelected(layerId, newSet) == layerId \in newSet

\* handleMouseDown(e, layerId): layerId is NoLayer for the canvas itself;
\* e.ctrlKey stands for e.ctrlKey || e.metaKey
HandleMouseDown(e, layerId) ==
  LET isMiddleClick == e.button = 1
      isMultiSelect == e.ctrlKey \/ e.shiftKey
      isCmdPan == e.ctrlKey /\ layerId = NoLayer
  IN /\ IF isSpacePressed \/ isMiddleClick \/ isCmdPan
          THEN \* Case 1: panning
               /\ isDraggingCanvas' = TRUE
               /\ dragStart' = [x |-> e.clientX, y |-> e.clientY]
               /\ initialPan' = pan
               /\ UNCHANGED <<storeVars, isDraggingLayer, isSelecting, selectionBox,
                              initialLayerPositions>>
        ELSE IF layerId # NoLayer
          THEN \* Case 2: layer interaction
               LET newSet == ClickSelection(layerId, isMultiSelect)
               IN /\ selectedLayerIds' = newSet
                  /\ IF EndsUpSelected(layerId, newSet)
                       THEN /\ isDraggingLayer' = TRUE
                            /\ AddToHistory
                            /\ dragStart' = [x |-> e.clientX, y |-> e.clientY]
                            /\ initialLayerPositions' =
                                 [id \in LayerIds(layers) \cap newSet |->
                                    LET l == layers[FindIndex(layers, id)]
                                    IN [x |-> l.x, y |-> l.y]]
                       ELSE UNCHANGED <<isDraggingLayer, history, future, dragStart,
                                        initialLayerPositions>>
                  /\ UNCHANGED <<layers, checkedLayers, isDraggingCanvas, isSelecting,
                                 selectionBox, initialPan>>
          ELSE \* Case 3: box selection
               LET startX == FSub(e.clientX, CanvasRect.left)
                   startY == FSub(e.clientY, CanvasRect.top)
               IN /\ isSelecting' = TRUE
                  /\ selectionBox' = Some([start   |-> [x |-> startX, y |-> startY],
                                           current |-> [x |-> startX, y |-> startY]])
                  /\ selectedLayerIds' = IF ~e.shiftKey THEN {} ELSE selectedLayerIds
                  /\ UNCHANGED <<layers, checkedLayers, history, future, isDraggingCanvas,
                                 isDraggingLayer, dragStart, initialPan,
                                 initialLayerPositions>>
     /\ UNCHANGED <<draggedLayerId, uploads, nextId, isSpacePressed, viewVars>>

\* a variant for C15: the intersection test on the x axis alone
IntersectsBoxOnX(l, x, y, w, h) ==
  LET dims == CalculateRotatedDimensions(l.width, l.height, l.rotation, l.scale)
      lx == FAdd(FMul(l.x, zoom), pan.x)
      lw == FMul(dims.width, zoom)
  IN FLt(x, FAdd(lx, lw)) /\ FLt(lx, FAdd(x, w))

\* the box-intersection test of handleMouseMove for layer l and marquee x, y, w, h
IntersectsBox(l, x, y, w, h) ==
  LET dims == CalculateRotatedDimensions(l.width, l.height, l.rotation, l.scale)
      lx == FAdd(FMul(l.x, zoom), pan.x)
      ly == FAdd(FMul(l.y, zoom), pan.y)
      lw == FMul(dims.width, zoom)
      lh == FMul(dims.height, zoom)
  IN /\ FLt(x, FAdd(lx, lw))
     /\ FLt(lx, FAdd(x, w))
     /\ FLt(y, FAdd(ly, lh))
     /\ FLt(ly, FAdd(y, h))

\* a variant for C17: the marquee always starts from the empty set
MarqueeBaseEmpty(e) == {}

\* new Set(e.shiftKey ? selectedLayerIds : [])
MarqueeBase(e) == IF e.shiftKey THEN selectedLayerIds ELSE {}

\* a variant for C33: the delta is added to where the layer is now
DraggedFromCurrent(l, dx, dy) == [l EXCEPT !.x = FAdd(l.x, dx), !.y = FAdd(l.y, dy)]

\* { ...l, x: initialLayerPositions[l.id].x + dx, y: initialLayerPositions[l.id].y + dy }
Dragged(l, dx, dy) ==
  [l EXCEPT !.x = FAdd(initialLayerPositions[l.id].x, dx),
            !.y = FAdd(initialLayerPositions[l.id].y, dy)]

\* the window mousemove listener
HandleMouseMove(e) ==
  /\ IF isDraggingCanvas
       THEN /\ pan' = [x |-> FAdd(initialPan.x, FSub(e.clientX, dragStart.x)),
                       y |-> FAdd(initialPan.y, FSub(e.clientY, dragStart.y))]
            /\ UNCHANGED <<layers, selectedLayerIds, selectionBox>>
     ELSE IF isDraggingLayer
       THEN LET dx == FDiv(FSub(e.clientX, dragStart.x), zoom)
                dy == FDiv(FSub(e.clientY, dragStart.y), zoom)
            IN /\ layers' = [i \in 1..Len(layers) |->
                               IF layers[i].id \in DOMAIN initialLayerPositions
                                 THEN Dragged(layers[i], dx, dy)
                                 ELSE layers[i]]
               /\ UNCHANGED <<pan, selectedLayerIds, selectionBox>>
     ELSE IF isSelecting /\ selectionBox # Null
       THEN LET box == selectionBox[1]
                currentX == FSub(e.clientX, CanvasRect.left)
                currentY == FSub(e.clientY, CanvasRect.top)
                x == FMin(box.start.x, currentX)
                y == FMin(box.start.y, currentY)
                w == FAbs(FSub(box.start.x, currentX))
                h == FAbs(FSub(box.start.y, currentY))
                base == MarqueeBase(e)
            IN /\ selectionBox' = Some([box EXCEPT !.current = [x |-> currentX, y |-> currentY]])
               /\ selectedLayerIds' =
                    base \cup {layers[i].id : i \in {j \in 1..Len(layers) :
                                                      IntersectsBox(layers[j], x, y, w, h)}}
               /\ UNCHANGED <<layers, pan>>
     ELSE UNCHANGED <<layers, pan, selectedLayerIds, selectionBox>>
  /\ UNCHANGED <<checkedLayers, history, future, zoom, draggedLayerId, uploads, nextId,
                 isSpacePressed>>
  /\ UNCHANGED <<isDraggingCanvas, isDraggingLayer, isSelecting, dragStart, initialPan,
                 initialLayerPositions>>

\* a variant for C18: mouseup records a snapshot of its own
HandleMouseUpRecording ==
  /\ isDraggingCanvas' = FALSE
  /\ isDraggingLayer' = FALSE
  /\ isSelecting' = FALSE
  /\ selectionBox' = Null
  /\ AddToHistory
  /\ UNCHANGED <<layers, selectedLayerIds, checkedLayers, draggedLayerId, uploads, nextId,
                 isSpacePressed, viewVars>>
  /\ UNCHANGED <<dragStart, initialPan, initialLayerPositions>>

\* the window mouseup listener
HandleMouseUp ==
  /\ isDraggingCanvas' = FALSE
  /\ isDraggingLayer' = FALSE
  /\ isSelecting' = FALSE
  /\ selectionBox' = Null
  /\ UNCHANGED <<storeVars, draggedLayerId, uploads, nextId, isSpacePressed, viewVars>>
  /\ UNCHANGED <<dragStart, initialPan, initialLayerPositions>>

\* ------------------------------------------------------------------------
\* Viewport
\* ------------------------------------------------------------------------

ZOOM_STEP == F(10)

MIN_ZOOM == F(10)

MAX_ZOOM == F(5 * Unit)

\* the toolbar's zoom-out button: setZoom(z => Math.max(MIN_ZOOM, z - ZOOM_STEP))
ZoomOut ==
  /\ zoom' = FMax(MIN_ZOOM, FSub(zoom, ZOOM_STEP))
  /\ UNCHANGED <<pan, storeVars, pointerVars, draggedLayerId, isSpacePressed, uploads, nextId>>

\* the toolbar's zoom-in button: setZoom(z => Math.min(MAX_ZOOM, z + ZOOM_STEP))
ZoomIn ==
  /\ zoom' = FMin(MAX_ZOOM, FAdd(zoom, ZOOM_STEP))
  /\ UNCHANGED <<pan, storeVars, pointerVars, draggedLayerId, isSpacePressed, uploads, nextId>>

\* a * 0.001
FThousandth(a) == IF IsFin(a) THEN F(RoundDiv(AbsInt(a.v), 1000) * Sgn(a)) ELSE a

\* handleWheel(e); e.ctrlKey stands for e.ctrlKey || e.metaKey
HandleWheel(e) ==
  /\ IF e.ctrlKey
       THEN LET zoomChange == FThousandth(FNeg(e.deltaY))
            IN zoom' = FMin(MAX_ZOOM, FMax(MIN_ZOOM, FAdd(zoom, zoomChange)))
       ELSE UNCHANGED zoom
  /\ UNCHANGED <<pan, storeVars, pointerVars, draggedLayerId, isSpacePressed, uploads, nextId>>

\* the toolbar's Reset button: setPan({ x: 0, y: 0 }); setZoom(1)
ResetView ==
  /\ pan' = Origin
  /\ zoom' = F(Unit)
  /\ UNCHANGED <<storeVars, pointerVars, draggedLayerId, isSpacePressed, uploads, nextId>>

\* the bounds that fitToView's forEach accumulates over the layers ls[i..],
\* starting from b
RECURSIVE ContentBounds(_, _, _)
ContentBounds(ls, i, b) ==
  IF i > Len(ls) THEN b
  ELSE LET l == ls[i]
           dims == CalculateRotatedDimensions(l.width, l.height, l.rotation, l.scale)
       IN ContentBounds(ls, i + 1,
            [minX |-> FMin(b.minX, l.x),
             minY |-> FMin(b.minY, l.y),
             maxX |-> FMax(b.maxX, FAdd(l.x, dims.width)),
             maxY |-> FMax(b.maxY, FAdd(l.y, dims.height))])

\* fitToView(); viewport is the canvas element's clientWidth and clientHeight
FitToView(viewport) ==
  /\ IF Len(layers) = 0 THEN UNCHANGED <<zoom, pan>>
     ELSE LET b == ContentBounds(layers, 1,
                     [minX |-> PInf, minY |-> PInf, maxX |-> NInf, maxY |-> NInf])
          IN IF FEq(b.minX, PInf) THEN UNCHANGED <<zoom, pan>>
             ELSE LET contentWidth == FSub(b.maxX, b.minX)
                      contentHeight == FSub(b.maxY, b.minY)
                      centerX == FAdd(b.minX, FHalf(contentWidth))
                      centerY == FAdd(b.minY, FHalf(contentHeight))
                      viewportWidth == viewport.clientWidth
                      viewportHeight == viewport.clientHeight
                      padding == F(50 * Unit)
                      scaleX == FDiv(FSub(viewportWidth, FMul(padding, F(2 * Unit))), contentWidth)
                      scaleY == FDiv(FSub(viewportHeight, FMul(padding, F(2 * Unit))), contentHeight)
                      newZoom == FMin(FMin(scaleX, scaleY), F(Unit))
                      viewportCenterX == FHalf(viewportWidth)
                      viewportCenterY == FHalf(viewportHeight)
                      newPanX == FSub(viewportCenterX, FMul(centerX, newZoom))
                      newPanY == FSub(viewportCenterY, FMul(centerY, newZoom))
                  IN /\ zoom' = newZoom
                     /\ pan' = [x |-> newPanX, y |-> newPanY]
  /\ UNCHANGED <<storeVars, pointerVars, draggedLayerId, isSpacePressed, uploads, nextId>>

\* ------------------------------------------------------------------------
\* Export
\* ------------------------------------------------------------------------

\* Math.round(a): the nearest integer, a half going towards +Infinity
MathRound(a) == IF IsFin(a) THEN F(((a.v + Unit \div 2) \div Unit) * Unit) ELSE a

\* Math.round(rotation * 100) / 100
RoundedRotation(rotation) ==
  FDiv(MathRound(FMul(rotation, F(100 * Unit))), F(100 * Unit))

\* String(a) of a number, as Array.prototype.join applies it: up to two
\* decimals, none of them a trailing zero
NumberToString(a) ==
  CASE IsNaN(a) -> "NaN"
    [] a.k = "pinf" -> "Infinity"
    [] a.k = "ninf" -> "-Infinity"
    [] OTHER ->
         LET n == AbsInt(a.v)
             frac == n % Unit
         IN (IF a.v < 0 THEN "-" ELSE "") \o ToString(n \div Unit) \o
            (IF frac = 0 THEN ""
             ELSE IF frac % 10 = 0 THEN "." \o ToString(frac \div 10)
             ELSE IF frac < 10 THEN ".0" \o ToString(frac)
             ELSE "." \o ToString(frac))

\* JSON.stringify of a number: NaN and the infinities become null
JsonNumber(a) == IF IsFin(a) THEN NumberToString(a) ELSE "null"

\* the character of s at position i
CharAt(s, i) == SubSeq(s, i, i)

\* s with every character c replaced by by[c] where by has one
RECURSIVE ReplaceChars(_, _)
ReplaceChars(s, by) ==
  IF Len(s) = 0 THEN ""
  ELSE (IF CharAt(s, 1) \in DOMAIN by THEN by[CharAt(s, 1)] ELSE CharAt(s, 1))
         \o ReplaceChars(SubSeq(s, 2, Len(s)), by)

\* a variant for C24: the name between double quotes, its own quotes left single
CsvQuoteNoDoubling(name) == "\"" \o name \o "\""

\* `"${layer.name.replace(/"/g, '""')}"`
CsvQuote(name) == "\"" \o ReplaceChars(name, [c \in {"\""} |-> "\"\""]) \o "\""

\* JSON.stringify of a string: the double quote and the backslash are escaped
JsonString(str) ==
  "\"" \o ReplaceChars(str, [c \in {"\"", "\\"} |-> "\\" \o c]) \o "\""

\* strs.join(sep)
RECURSIVE Join(_, _)
Join(strs, sep) ==
  IF Len(strs) = 0 THEN ""
  ELSE IF Len(strs) = 1 THEN strs[1]
  ELSE strs[1] \o sep \o Join(Tail(strs), sep)

\* a variant for C21: layers that are hidden are left out of the export
LayersToExportVisible ==
  LET shown(l) == l.visible /\ (Cardinality(checkedLayers) = 0 \/ l.id \in checkedLayers)
  IN SelectSeq(layers, shown)

\* checkedLayers.size > 0 ? layers.filter(l => checkedLayers.has(l.id)) : layers
LayersToExport ==
  IF Cardinality(checkedLayers) > 0
    THEN LET checked(l) == l.id \in checkedLayers IN SelectSeq(layers, checked)
    ELSE layers

\* a variant for C22: the index of the layer in the full layer sequence
MapIndexInLayers(ls, k) == FindIndex(layers, ls[k].id) - 1

\* the index that ls.map((layer, index) => ...) passes for the k-th element
MapIndex(ls, k) == k - 1

\* the ExportData that the json branch builds for a layer
ExportRecord(layer, index) ==
  [filename    |-> layer.name,
   shift_x     |-> MathRound(layer.x),
   shift_y     |-> MathRound(layer.y),
   rotate      |-> RoundedRotation(layer.rotation),
   layer_order |-> index]

\* one element of JSON.stringify(data, null, 2)
JsonObject(d) ==
  "  {\n" \o
  "    \"filename\": " \o JsonString(d.filename) \o ",\n" \o
  "    \"shift_x\": " \o JsonNumber(d.shift_x) \o ",\n" \o
  "    \"shift_y\": " \o JsonNumber(d.shift_y) \o ",\n" \o
  "    \"rotate\": " \o JsonNumber(d.rotate) \o ",\n" \o
  "    \"layer_order\": " \o ToString(d.layer_order) \o "\n" \o
  "  }"

\* JSON.stringify(data, null, 2)
JsonStringify(data) ==
  IF Len(data) = 0 THEN "[]"
  ELSE "[\n" \o Join([k \in 1..Len(data) |-> JsonObject(data[k])], ",\n") \o "\n]"

\* the row that the csv branch builds for a layer, joined with commas
CsvRow(layer, index) ==
  Join(<<CsvQuote(layer.name),
         NumberToString(MathRound(layer.x)),
         NumberToString(MathRound(layer.y)),
         NumberToString(RoundedRotation(layer.rotation)),
         ToString(index)>>, ",")

\* headers.join(',')
CsvHeader == Join(<<"filename", "shift_x", "shift_y", "rotate", "layer_order">>, ",")

\* prepareExport(format)
PrepareExport(format) ==
  /\ IF Len(layers) = 0 THEN UNCHANGED exportModal
     ELSE LET layersToExport == LayersToExport
              n == Len(layersToExport)
          IN IF n = 0 THEN UNCHANGED exportModal
             ELSE IF format = "json"
               THEN LET data == [k \in 1..n |->
                                   ExportRecord(layersToExport[k], MapIndex(layersToExport, k))]
                    IN exportModal' = [show |-> TRUE, data |-> JsonStringify(data),
                                       filename |-> "stitching_data.json",
                                       type |-> "application/json"]
               ELSE LET rows == [k \in 1..n |->
                                   CsvRow(layersToExport[k], MapIndex(layersToExport, k))]
                    IN exportModal' = [show |-> TRUE,
                                       data |-> Join(<<CsvHeader>> \o rows, "\n"),
                                       filename |-> "stitching_data.csv",
                                       type |-> "text/csv"]
  /\ UNCHANGED <<storeVars, viewVars, pointerVars, draggedLayerId, isSpacePressed,
                 uploads, nextId>>

\* ------------------------------------------------------------------------
\* Direct calls of calculateRotatedDimensions
\* ------------------------------------------------------------------------

Calculate ==
  /\ geomOut = Null
  /\ geomOut' = Some(CalculateRotatedDimensions(geomIn.width, geomIn.height,
                                                geomIn.rotation, geomIn.scale))
  /\ lastOp' = "calculateRotatedDimensions"
  /\ UNCHANGED <<geomIn, appVars, steps, observerVars>>

\* ------------------------------------------------------------------------
\* Bounds and inputs
\* ------------------------------------------------------------------------

\* handlers that run in one behaviour of the wide specification
MaxSteps == 6

PngA == [name |-> "a.png", width |-> F(100 * Unit), height |-> F(50 * Unit), decodes |-> TRUE]

PngB == [name |-> "b.png", width |-> F(40 * Unit), height |-> F(40 * Unit), decodes |-> TRUE]

\* a file the browser cannot decode: its img.onload never fires
Broken == [name |-> "broken.png", width |-> F(0), height |-> F(0), decodes |-> FALSE]

UploadInputs == {<<PngA>>, <<PngA, PngB>>, <<PngA, Broken>>}

Key(key, code, ctrlKey, shiftKey, inInput) ==
  [key |-> key, code |-> code, ctrlKey |-> ctrlKey, shiftKey |-> shiftKey,
   inInput |-> inInput]

ArrowKeys == {"ArrowUp", "ArrowDown", "ArrowLeft", "ArrowRight"}

\* Ctrl/Cmd+Z
CtrlZ == Key("z", "KeyZ", TRUE, FALSE, FALSE)

\* Ctrl/Cmd+Shift+Z: with shift held the key delivered is "Z"
CtrlShiftZ == Key("Z", "KeyZ", TRUE, TRUE, FALSE)

\* Ctrl/Cmd+Y
CtrlY == Key("y", "KeyY", TRUE, FALSE, FALSE)

ArrowEvents == {Key(k, k, FALSE, FALSE, FALSE) : k \in {"ArrowRight"}}

DeleteEvents == {Key(k, k, FALSE, FALSE, FALSE) : k \in {"Delete"}}

Mouse(button, ctrlKey, shiftKey, clientX, clientY) ==
  [button |-> button, ctrlKey |-> ctrlKey, shiftKey |-> shiftKey,
   clientX |-> clientX, clientY |-> clientY]

\* the layers drawn on the canvas, which are the ones a pointer can land on
VisibleIds == {layers[i].id : i \in {j \in 1..Len(layers) : layers[j].visible}}

\* values typed into the property panel's fields in the wide specification
PanelInputs == {[x |-> F(1 * Unit)]}

\* ------------------------------------------------------------------------
\* The wide specification: every handler of the store, with small inputs
\* ------------------------------------------------------------------------

\* handler A runs, as one of at most MaxSteps
Step(A, op) ==
  /\ steps < MaxSteps
  /\ A
  /\ lastOp' = op
  /\ steps' = steps + 1
  /\ UNCHANGED <<exportModal, geomVars, observerVars>>

Next ==
  \/ \E files \in UploadInputs : Step(HandleFileUpload(files), "handleFileUpload")
  \/ \E b \in 1..Len(uploads) : \E i \in 1..Len(uploads[b].files) :
       Step(ImgOnload(b, i), "img.onload")
  \/ \E c \in PanelInputs :
       /\ Cardinality(selectedLayerIds) > 0
       /\ Step(UpdateSelectedLayers(c), "updateSelectedLayers")
  \/ \E id \in LayerIds(layers) : Step(HandleDragStart(id), "handleDragStart")
  \/ \E id \in LayerIds(layers) : Step(HandleDrop(id), "handleDrop")
  \/ \E id \in LayerIds(layers) : \E multi \in BOOLEAN :
       Step(ToggleLayerSelection(id, multi), "toggleLayerSelection")
  \/ \E id \in LayerIds(layers) : Step(ToggleLayerCheck(id), "toggleLayerCheck")
  \/ Step(HandleKeyDown(CtrlZ), "keydown.ctrl+z")
  \/ Step(HandleKeyDown(CtrlShiftZ), "keydown.ctrl+shift+z")
  \/ Step(HandleKeyDown(CtrlY), "keydown.ctrl+y")
  \/ \E e \in ArrowEvents : Step(HandleKeyDown(e), "keydown.arrow")
  \/ \E e \in DeleteEvents : Step(HandleKeyDown(e), "keydown.delete")
  \/ \E id \in VisibleIds :
       Step(HandleMouseDown(Mouse(0, FALSE, FALSE, F(0), F(0)), id), "mousedown.layer")
  \/ Step(HandleMouseMove([clientX |-> F(1 * Unit), clientY |-> F(0), shiftKey |-> FALSE]),
          "mousemove")
  \/ Step(HandleMouseUp, "mouseup")

Spec == Init /\ [][Next]_vars

\* the newest snapshot of a past stack
Top(past) == past[Len(past)]

\* the handlers that run one of the recorded structural mutations: the commit
\* of an imported batch, the batch property update, deleteSelected, reorder
StructuralOps == {"img.onload", "updateSelectedLayers", "keydown.delete", "handleDrop"}

\* the handlers that record a snapshot when they act
RecordingOps ==
  {"handleFileUpload", "updateSelectedLayers", "keydown.delete", "handleDrop",
   "mousedown.layer"}

\* C2: whenever a recorded structural mutation changes the layer sequence, the
\* newest snapshot on past is the sequence as it was immediately before the
\* change, so that one undo restores it; in every interleaving, an import
\* that commits after other changes included.
C2_SnapshotIsPreMutation ==
  [][(lastOp' \in StructuralOps /\ layers' # layers)
       => (Len(history') > 0 /\ Top(history') = layers)]_vars

\* C3: an arrow-key press with a non-empty selection pushes exactly one
\* snapshot, of the layer sequence before the nudge, onto past.
C3_ArrowKeyIsUndoStep ==
  [][(lastOp' = "keydown.arrow" /\ selectedLayerIds # {})
       => history' = Append(history, layers)]_vars

\* a is b with snapshots pushed on its front
IsSuffix(b, a) ==
  /\ Len(b) <= Len(a)
  /\ \A i \in 1..Len(b) : b[i] = a[Len(a) - Len(b) + i]

\* C4: right after a mutation is recorded the future stack is empty; a redo
\* with an empty future changes neither the layer sequence nor past; undo
\* only pushes on the front of future and redo only pops its front.
C4_BranchTruncation ==
  [][/\ (lastOp' \in RecordingOps /\ history' # history) => future' = <<>>
     /\ (lastOp' = "keydown.ctrl+y" /\ future = <<>>)
          => (layers' = layers /\ history' = history /\ future' = <<>>)
     /\ lastOp' = "keydown.ctrl+z" => IsSuffix(future, future')
     /\ lastOp' = "keydown.ctrl+y"
          => (future' = future \/ (future # <<>> /\ future' = Tail(future)))]_vars

\* C4, reached: an import was undone, leaving its layer on future, and a second upload has
\* been recorded: the layer list is empty although the imported layer is still
\* the selection, and future is empty
C4_Witness ==
  /\ lastOp = "handleFileUpload"
  /\ layers = <<>>
  /\ selectedLayerIds = {1}
  /\ history = <<<<>>>>
  /\ future = <<>>

\* every file of upload u that decodes has called back
AllDecoded(u) == \A i \in 1..Len(u.files) : u.files[i].decodes => i \in u.loaded

\* C11: once every file of an upload that decodes has finished decoding (no
\* callback of the batch is left to fire), the layers of the decoded files
\* are in the layer sequence, whether or not other files of the batch failed.
C11_DecodedFilesAreAdded ==
  \A b \in 1..Len(uploads) :
    AllDecoded(uploads[b])
      => \A k \in 1..Len(uploads[b].newLayers) :
           uploads[b].newLayers[k].id \in LayerIds(layers)

\* the layers that this step appended behind the existing ones
Appended == SubSeq(layers', Len(layers) + 1, Len(layers'))

\* C12: no layer of a batch that is still decoding is in the layer sequence;
\* an img.onload either leaves the sequence alone or, being the last of its
\* batch, appends the whole batch behind the unchanged existing layers, one
\* layer per file, in the order in which the files finished decoding (ids are
\* drawn in that order).
C12_JoinBarrier ==
  /\ [](\A b \in 1..Len(uploads) : \A k \in 1..Len(uploads[b].newLayers) :
          uploads[b].newLayers[k].id \notin LayerIds(layers))
  /\ [][lastOp' = "img.onload"
          => \/ layers' = layers
             \/ /\ Len(layers') > Len(layers)
                /\ SubSeq(layers', 1, Len(layers)) = layers
                /\ \A j \in 1..(Len(Appended) - 1) : Appended[j].id < Appended[j + 1].id
                /\ \E b \in 1..Len(uploads) :
                     /\ Len(Appended) = Len(uploads[b].files)
                     /\ SubSeq(Appended, 1, Len(Appended) - 1) = uploads[b].newLayers
                     /\ {Appended[j].name : j \in 1..Len(Appended)}
                          = {uploads[b].files[j].name : j \in 1..Len(uploads[b].files)}]_vars

\* C12, reached: of the upload a.png, b.png the second file finished decoding
\* first, and the batch was committed as b.png, a.png
C12_Witness ==
  /\ lastOp = "img.onload"
  /\ uploads = <<>>
  /\ Len(layers) = 2
  /\ layers[1].name = "b.png" /\ layers[1].id = 1
  /\ layers[2].name = "a.png" /\ layers[2].id = 2

\* C13: when an img.onload commits a batch, the selection becomes the
\* singleton of the first newly added layer if the selection is empty at that
\* moment, and is left unchanged if it is not.
C13_AutoSelectOnCommit ==
  [][(lastOp' = "img.onload" /\ Len(layers') > Len(layers))
       => selectedLayerIds' =
            IF selectedLayerIds = {} THEN {Appended[1].id} ELSE selectedLayerIds]_vars

\* C28: with focus outside a text input, Ctrl/Cmd+Z performs undo, and
\* Ctrl/Cmd+Shift+Z (which delivers the key "Z") and Ctrl/Cmd+Y both perform
\* redo: with a non-empty future, the front of future becomes the current
\* layer sequence.
C28_UndoRedoShortcuts ==
  [][/\ (lastOp' = "keydown.ctrl+z" /\ history # <<>>)
          => (layers' = Top(history) /\ future' = <<layers>> \o future)
     /\ (lastOp' \in {"keydown.ctrl+shift+z", "keydown.ctrl+y"} /\ future # <<>>)
          => (layers' = future[1] /\ future' = Tail(future)
                /\ history' = Append(history, layers))]_vars

\* the keys that undo or redo
HistoryKeys == {"keydown.ctrl+z", "keydown.ctrl+shift+z", "keydown.ctrl+y"}

\* C37: while future is not empty the layer sequence is the one the most
\* recent undo or redo installed: no handler other than undo and redo changes
\* the layer sequence and leaves snapshots on future.
C37_RedoNeverDiscardsWork ==
  [][(future' # <<>> /\ lastOp' \notin HistoryKeys) => layers' = layers]_vars

\* C6: every id in the selection set and in the checked set is the id of a
\* layer of the current layer sequence.
C6_NoDanglingIds ==
  /\ selectedLayerIds \subseteq LayerIds(layers)
  /\ checkedLayers \subseteq LayerIds(layers)

\* ------------------------------------------------------------------------
\* The pointer specification: two imported layers under the mouse and Space
\* ------------------------------------------------------------------------

\* handlers that run in one behaviour of the pointer specification
MaxPointerSteps == 7

\* a point of the viewport, in pixels
At(x, y) == [x |-> F(x * Unit), y |-> F(y * Unit)]

\* mouse-downs on the empty canvas, at (60,60): plain, with shift, with
\* Ctrl/Cmd, with the middle button
CanvasDowns ==
  {Mouse(0, FALSE, FALSE, At(60, 60).x, At(60, 60).y),
   Mouse(0, FALSE, TRUE, At(60, 60).x, At(60, 60).y),
   Mouse(0, TRUE, FALSE, At(60, 60).x, At(60, 60).y),
   Mouse(1, FALSE, FALSE, At(60, 60).x, At(60, 60).y)}

\* mouse-downs on a layer, at (0,0): plain, with shift, with Ctrl/Cmd
LayerDowns ==
  {Mouse(0, FALSE, FALSE, At(0, 0).x, At(0, 0).y),
   Mouse(0, FALSE, TRUE, At(0, 0).x, At(0, 0).y),
   Mouse(0, TRUE, FALSE, At(0, 0).x, At(0, 0).y)}

\* mouse-moves to (80,70) and to (50,10), with and without shift
Moves ==
  {[clientX |-> p.x, clientY |-> p.y, shiftKey |-> sh] :
     p \in {At(80, 70), At(50, 10)}, sh \in BOOLEAN}

SpaceKey == Key(" ", "Space", FALSE, FALSE, FALSE)

\* the observer at a pointer-down with event e on layerId: where the pointer
\* is, whether a box selection or a layer drag starts, the selection the
\* marquee starts from, the selection the pointer-down leaves, and where the
\* layers of that selection are
ObserveDown(e, layerId) ==
  down' = [at        |-> [x |-> e.clientX, y |-> e.clientY],
           marquee   |-> /\ layerId = NoLayer
                         /\ ~(isSpacePressed \/ e.button = 1 \/ e.ctrlKey),
           drag      |-> /\ layerId # NoLayer
                         /\ ~(isSpacePressed \/ e.button = 1)
                         /\ layerId \in selectedLayerIds',
           base      |-> IF e.shiftKey THEN selectedLayerIds ELSE {},
           selected  |-> selectedLayerIds',
           positions |-> [id \in LayerIds(layers) \cap selectedLayerIds' |->
                            LET l == layers[FindIndex(layers, id)]
                            IN [x |-> l.x, y |-> l.y]]]

GestureStep(A, op, observe) ==
  /\ steps < MaxPointerSteps
  /\ A
  /\ lastOp' = op
  /\ steps' = steps + 1
  /\ observe
  /\ UNCHANGED <<exportModal, geomVars, trail, run>>

PointerStep(A, op) == GestureStep(A, op, UNCHANGED down)

NextPointer ==
  \/ /\ nextId = 0
     /\ uploads = <<>>
     /\ PointerStep(HandleFileUpload(<<PngA, PngB>>), "handleFileUpload")
  \/ \E b \in 1..Len(uploads) : \E i \in 1..Len(uploads[b].files) :
       PointerStep(ImgOnload(b, i), "img.onload")
  \/ \E i \in 1..Len(layers) : PointerStep(ToggleVisible(i), "toggleVisible")
  \/ \E e \in CanvasDowns :
       GestureStep(HandleMouseDown(e, NoLayer), "mousedown", ObserveDown(e, NoLayer))
  \/ \E e \in LayerDowns : \E id \in VisibleIds :
       GestureStep(HandleMouseDown(e, id), "mousedown", ObserveDown(e, id))
  \/ \E e \in Moves : PointerStep(HandleMouseMove(e), "mousemove")
  \/ PointerStep(HandleMouseUp, "mouseup")
  \/ PointerStep(HandleKeyDown(SpaceKey), "keydown.space")
  \/ PointerStep(HandleKeyUp(SpaceKey), "keyup.space")

SpecPointer == Init /\ [][NextPointer]_vars

\* the interaction modes that are active
ActiveModes ==
  {m \in {"PanCanvas", "DragLayer", "BoxSelect"} :
     \/ m = "PanCanvas" /\ isDraggingCanvas
     \/ m = "DragLayer" /\ isDraggingLayer
     \/ m = "BoxSelect" /\ isSelecting}

\* C14: at most one of PanCanvas, DragLayer and BoxSelect is active, also when
\* a second pointer-down arrives before the pointer-up of the first.
C14_ModesExclusive == Cardinality(ActiveModes) <= 1

\* a <= b for numbers that are not NaN
FLe(a, b) == ~FLt(b, a)

\* the marquee rectangle of a selection box, by its edges
Marquee(box) ==
  [left   |-> FMin(box.start.x, box.current.x),
   right  |-> FMax(box.start.x, box.current.x),
   top    |-> FMin(box.start.y, box.current.y),
   bottom |-> FMax(box.start.y, box.current.y)]

\* the zoom-and-pan-transformed bounding box of a layer, by its edges
ScreenBox(l) ==
  LET left == FAdd(FMul(l.x, zoom), pan.x)
      top  == FAdd(FMul(l.y, zoom), pan.y)
  IN [left |-> left, right |-> FAdd(left, FMul(BBox(l).width, zoom)),
      top |-> top, bottom |-> FAdd(top, FMul(BBox(l).height, zoom))]

\* the two rectangles overlap: neither lies wholly beside, above or below the other
Overlaps(a, b) ==
  ~(\/ FLe(a.right, b.left) \/ FLe(b.right, a.left)
    \/ FLe(a.bottom, b.top) \/ FLe(b.bottom, a.top))

\* a pointer-move reaches the box-selection branch of handleMouseMove
BoxSelecting ==
  isSelecting /\ selectionBox # Null /\ ~isDraggingCanvas /\ ~isDraggingLayer

\* every selected id is, after this step, the id of a layer under the marquee
SelectedAreUnderMarquee ==
  \A id \in selectedLayerIds' :
    \E i \in 1..Len(layers) :
      layers[i].id = id /\ Overlaps(ScreenBox(layers[i]), Marquee(selectionBox'[1]))

\* C15, as stated: after every pointer-move of a BoxSelect, with or without
\* shift, no layer whose transformed bounding box misses the marquee is selected.
C15_MarqueeOnlyOverlapping ==
  [][(lastOp' = "mousemove" /\ BoxSelecting) => SelectedAreUnderMarquee]_vars

\* C15, amended: after every pointer-move of a BoxSelect made without shift,
\* no layer whose transformed bounding box misses the marquee is selected
\* (with shift the members the selection already had are kept, as C17 demands).
C15_MarqueeOnlyOverlappingNoShift ==
  [][\A e \in Moves :
       (lastOp' = "mousemove" /\ BoxSelecting /\ ~e.shiftKey /\ HandleMouseMove(e))
         => SelectedAreUnderMarquee]_vars

\* C15, reached: the marquee from (60,60) to (50,10) lies over a.png and beside
\* b.png, and a.png alone is selected
C15_Witness ==
  /\ lastOp = "mousemove"
  /\ BoxSelecting
  /\ selectionBox[1].current = At(50, 10)
  /\ Len(layers) = 2
  /\ \E i \in 1..2 : layers[i].name = "a.png" /\ selectedLayerIds = {layers[i].id}

\* C16: a BoxSelect pointer-move never adds a layer with visible = false to
\* the selection.
C16_InvisibleNotHit ==
  [][(lastOp' = "mousemove" /\ BoxSelecting)
       => \A i \in 1..Len(layers) :
            (~layers[i].visible /\ layers[i].id \notin selectedLayerIds)
              => layers[i].id \notin selectedLayerIds']_vars

\* C17: a BoxSelect that starts with shift held keeps the selection as it is,
\* and every pointer-move of a BoxSelect with shift held keeps every member the
\* selection had, so the pre-drag selection is never reduced by the marquee.
C17_ShiftIsAdditive ==
  [][/\ \A e \in CanvasDowns :
          (lastOp' = "mousedown" /\ e.shiftKey /\ HandleMouseDown(e, NoLayer))
            => selectedLayerIds \subseteq selectedLayerIds'
     /\ \A e \in Moves :
          (lastOp' = "mousemove" /\ BoxSelecting /\ e.shiftKey /\ HandleMouseMove(e))
            => selectedLayerIds \subseteq selectedLayerIds']_vars

\* C17, reached: b.png was selected, the marquee from (60,60) to (50,10) lies
\* over a.png only, and both are selected
C17_Witness ==
  /\ lastOp = "mousemove"
  /\ BoxSelecting
  /\ selectionBox[1].current = At(50, 10)
  /\ Len(layers) = 2
  /\ selectedLayerIds = {1, 2}

\* the layers whose transformed bounding box overlaps the marquee this step leaves
UnderMarquee ==
  {layers[i].id : i \in {j \in 1..Len(layers) :
                           Overlaps(ScreenBox(layers[j]), Marquee(selectionBox'[1]))}}

\* C34: the base of a marquee selection is fixed at pointer-down (the
\* selection before the drag if shift is held then, the empty set otherwise),
\* and after every pointer-move of the BoxSelect the selection is that base
\* united with the layers under the marquee of that move, whatever earlier
\* marquees of the gesture touched and whether or not shift is down at the move.
C34_MarqueeBaseFixed ==
  [][(lastOp' = "mousemove" /\ BoxSelecting /\ down.marquee)
       => selectedLayerIds' = down.base \cup UnderMarquee]_vars

\* the pan condition of handleMouseDown for a press on a layer
PanCondition(e) == isSpacePressed \/ e.button = 1

\* C18: a pointer-down on a layer that ends up selected pushes one snapshot,
\* the layer sequence before the drag, and changes no layer; no pointer-move
\* and no pointer-up pushes a snapshot or touches past.
C18_DragIsOneUndoStep ==
  [][/\ \A e \in LayerDowns : \A id \in LayerIds(layers) :
          (/\ lastOp' = "mousedown" /\ ~PanCondition(e) /\ HandleMouseDown(e, id)
           /\ id \in selectedLayerIds')
            => (history' = Append(history, layers) /\ layers' = layers)
     /\ lastOp' \in {"mousemove", "mouseup"} => history' = history]_vars

\* C18, reached: a drag is over; past holds the snapshot of the upload and the
\* one of the pointer-down, whose layers are still at x = 0 while a dragged
\* layer is not
C18_Witness ==
  /\ lastOp = "mouseup"
  /\ Len(history) = 2
  /\ Len(layers) = 2
  /\ \A i \in 1..2 : Top(history)[i].x = F(0)
  /\ \E i \in 1..2 : layers[i].x # F(0)

\* C19: a pointer-down on a layer, with no pan condition, enters DragLayer and
\* records a snapshot if the layer is selected after the selection update; if
\* it is not, no mode flag changes and nothing is recorded.
C19_DragLayerEntry ==
  [][\A e \in LayerDowns : \A id \in LayerIds(layers) :
       (lastOp' = "mousedown" /\ ~PanCondition(e) /\ HandleMouseDown(e, id))
         => IF id \in selectedLayerIds'
              THEN isDraggingLayer' /\ history' = Append(history, layers)
              ELSE /\ UNCHANGED <<isDraggingCanvas, isDraggingLayer, isSelecting>>
                   /\ UNCHANGED <<history, future>>]_vars

\* C19, reached: a shift-click took the only selected layer out of the
\* selection; no mode is active and past holds the snapshot of the upload alone
C19_Witness ==
  /\ lastOp = "mousedown"
  /\ selectedLayerIds = {}
  /\ ActiveModes = {}
  /\ Len(layers) = 2
  /\ Len(history) = 1

MaxX == 52

\* an undo/redo round trip is under way
RunActive == run.phase = "undo" \/ (run.phase = "redo" /\ run.k < run.n)

\* the observer starts over from the sequence this step leaves
ObserveReset ==
  /\ trail' = <<layers'>>
  /\ run' = NoRun

\* the observer stops: what follows is not N recorded mutations, N undos and
\* N redos in a row
ObserveOff ==
  /\ trail' = <<>>
  /\ run' = [NoRun EXCEPT !.phase = "off"]

\* a recording handler ran: the trail grows by the sequence it left, and holds
\* the sequences around the last HistoryLimit recorded mutations at most
ObserveRecord ==
  IF run.phase = "off" \/ RunActive THEN ObserveOff
  ELSE /\ trail' = LET t == Append(trail, layers')
                   IN IF Len(t) > HistoryLimit + 1 THEN Tail(t) ELSE t
       /\ run' = NoRun

\* img.onload ran: a commit changes the layers without a snapshot
ObserveUnrecorded ==
  IF layers' # layers THEN ObserveReset ELSE UNCHANGED observerVars

\* undo ran: the first undo after recorded mutations starts a run, a further
\* one continues it while it stays within the mutations of the trail
ObserveUndo ==
  IF ~RunActive /\ Len(trail) >= 2
    THEN /\ run' = [phase |-> "undo", k |-> 1, n |-> 0,
                    base |-> <<layers, history, future>>]
         /\ trail' = trail
  ELSE IF run.phase = "undo" /\ run.k + 1 <= Len(trail) - 1
    THEN /\ run' = [run EXCEPT !.k = run.k + 1]
         /\ trail' = trail
  ELSE ObserveOff

\* redo ran: after the N undos of a run, the redos are counted up to N
ObserveRedo ==
  IF run.phase = "undo"
    THEN /\ run' = [run EXCEPT !.phase = "redo", !.n = run.k, !.k = 1]
         /\ trail' = trail
  ELSE IF run.phase = "redo" /\ run.k < run.n
    THEN /\ run' = [run EXCEPT !.k = run.k + 1]
         /\ trail' = trail
  ELSE ObserveOff

HistoryStep(A, op, observe) ==
  /\ A
  /\ lastOp' = op
  /\ observe
  /\ UNCHANGED <<exportModal, geomVars, steps, down>>

NextHistory ==
  \/ /\ nextId = 0
     /\ uploads = <<>>
     /\ HistoryStep(HandleFileUpload(<<PngA>>), "handleFileUpload", ObserveRecord)
  \/ \E b \in 1..Len(uploads) : \E i \in 1..Len(uploads[b].files) :
       HistoryStep(ImgOnload(b, i), "img.onload", ObserveUnrecorded)
  \/ \E i \in 1..Len(layers) :
       /\ layers[i].id \in selectedLayerIds
       /\ layers[i].x.v < MaxX * Unit
       /\ HistoryStep(UpdateSelectedLayers([x |-> FAdd(layers[i].x, F(Unit))]),
                      "updateSelectedLayers", ObserveRecord)
  \/ /\ Len(history) > 0
     /\ HistoryStep(Undo, "undo", ObserveUndo)
  \/ /\ Len(future) > 0
     /\ HistoryStep(Redo, "redo", ObserveRedo)

SpecHistory == Init /\ [][NextHistory]_vars

\* C1: with trail = s_0 .. s_m the layer sequences around the last m recorded
\* mutations (m <= 50, nothing unrecorded in between), after the k-th of N
\* undos the layers are the sequence before the (N-k+1)-th of the last N
\* mutations; after the k-th redo that follows they are the sequence after the
\* k-th of them; and after the N-th redo layers, past and future are what they
\* were before the first undo.
C1_RoundTrip ==
  /\ run.phase = "undo" => layers = trail[Len(trail) - run.k]
  /\ run.phase = "redo" =>
       /\ layers = trail[Len(trail) - run.n + run.k]
       /\ run.k = run.n => <<layers, history, future>> = run.base

\* C1, reached: 50 recorded updates have been undone and redone, all 50 of them
C1_Witness ==
  /\ run.phase = "redo"
  /\ run.n = 50
  /\ run.k = 50
  /\ Len(layers) = 1
  /\ layers[1].x = F(50 * Unit)

\* C5: past never holds more than 50 snapshots; a record made when it holds
\* 50 drops the oldest and keeps the 50 most recent pre-mutation sequences in
\* order, and the dropped snapshot is no longer on past for undo to reach.
C5_HistoryCap ==
  /\ [](Len(history) <= 50)
  /\ [][(lastOp' \in {"handleFileUpload", "updateSelectedLayers"} /\ Len(history) = 50)
          => /\ history' = Tail(history) \o <<layers>>
             /\ \A i \in 1..Len(history') : history'[i] # history[1]]_vars

\* C5, reached: the 52nd record has been made: past holds the sequences before the last 50
\* updates, the empty sequence of the upload and the one before the first
\* update are gone
C5_Witness ==
  /\ lastOp = "updateSelectedLayers"
  /\ Len(history) = 50
  /\ Len(layers) = 1
  /\ layers[1].x = F(51 * Unit)
  /\ history[1] # <<>>
  /\ history[1][1].x = F(1 * Unit)

\* C39: past and future together never hold more than 50 snapshots, so redo,
\* which pushes onto past without looking at its length, never takes past
\* beyond 50, and future never holds more than 50.
C39_StacksJointlyBounded ==
  /\ Len(history) + Len(future) <= 50
  /\ Len(history) <= 50
  /\ Len(future) <= 50

\* C39, reached: a redo has brought past back to 50 snapshots, and in another
\* state 50 undos in a row had put 50 snapshots on future
C39_Witness ==
  /\ lastOp = "redo"
  /\ Len(history) = 50
  /\ Len(future) = 0
  /\ Len(layers) = 1
  /\ layers[1].x = F(51 * Unit)

\* ------------------------------------------------------------------------
\* The panel specification: updateSelectedLayers on every kind of change
\* ------------------------------------------------------------------------

\* handlers that run in one behaviour of the panel specification
MaxPanelSteps == 5

\* the changes handed to updateSelectedLayers: the X, Y, rotation and scale
\* fields (the scale field takes whatever parseFloat reads, "Infinity", "0"
\* and "-1" included), and a Partial<Layer> that holds both rotation and scale
PanelChanges ==
  <<[x |-> F(10 * Unit)],
    [y |-> F(10 * Unit)],
    [rotation |-> F(90 * Unit)],
    [rotation |-> F(37 * Unit)],
    [scale |-> F(2 * Unit)],
    [scale |-> PInf],
    [scale |-> F(0)],
    [scale |-> F(-(1 * Unit))],
    [rotation |-> F(90 * Unit), scale |-> F(2 * Unit)]>>

PanelStep(A, op) ==
  /\ steps < MaxPanelSteps
  /\ A
  /\ lastOp' = op
  /\ steps' = steps + 1
  /\ UNCHANGED <<exportModal, geomVars, observerVars>>

NextPanel ==
  \/ /\ nextId = 0
     /\ uploads = <<>>
     /\ PanelStep(HandleFileUpload(<<PngA>>), "handleFileUpload")
  \/ \E b \in 1..Len(uploads) : \E i \in 1..Len(uploads[b].files) :
       PanelStep(ImgOnload(b, i), "img.onload")
  \/ \E n \in 1..Len(PanelChanges) :
       /\ Cardinality(selectedLayerIds) > 0
       /\ PanelStep(UpdateSelectedLayers(PanelChanges[n]), "updateSelectedLayers")

SpecPanel == Init /\ [][NextPanel]_vars

\* the center of the bounding box of a layer
Center(l) ==
  [x |-> FAdd(l.x, FHalf(BBox(l).width)), y |-> FAdd(l.y, FHalf(BBox(l).height))]

\* the centers of a and b are the same point
SameCenter(a, b) == FEq(Center(a).x, Center(b).x) /\ FEq(Center(a).y, Center(b).y)

\* every selected layer keeps the center of its bounding box in this step
CentersKept ==
  \A i \in 1..Len(layers) :
    layers[i].id \in selectedLayerIds => SameCenter(layers'[i], layers[i])

\* C7: a batch update that changes the rotation or the scale of the selected
\* layers leaves the center of every selected layer's bounding box where it
\* was (the case of both at once is C8's).
C7_CenterPreserved ==
  [][\A n \in 1..Len(PanelChanges) :
       LET c == PanelChanges[n]
       IN (/\ lastOp' = "updateSelectedLayers"
           /\ UpdateSelectedLayers(c)
           /\ ("rotation" \in DOMAIN c) # ("scale" \in DOMAIN c))
          => CentersKept]_vars

NonNegative(a) == ~IsNaN(a) /\ Sgn(a) >= 0

\* C40: the bounding box of every layer has a width and a height that are not
\* negative, whatever scale (zero and negative numbers included) and rotation
\* the property panel has stored.
C40_BBoxNonNegative ==
  \A i \in 1..Len(layers) :
    NonNegative(BBox(layers[i]).width) /\ NonNegative(BBox(layers[i]).height)

\* ------------------------------------------------------------------------
\* The geometry specification: calculateRotatedDimensions on drawn arguments
\* ------------------------------------------------------------------------

GeomWidths == {F(0), F(100 * Unit), NaN, PInf, NInf}

GeomHeights == {F(50 * Unit), NaN, PInf}

GeomScales == {F(Unit), F(2 * Unit), F(50), NaN, PInf, NInf}

\* hundredths of a degree: -180, -90, -37, 0, 0.04, 0.05, 37, 89.96, 90, 143,
\* 180, 270, 359.96, 360, 397, 450, 720
GeomRotations ==
  {F(v) : v \in {-18000, -9000, -3700, 0, 4, 5, 3700, 8996, 9000, 14300, 18000,
                 27000, 35996, 36000, 39700, 45000, 72000}}

GeomInputs ==
  [width : GeomWidths, height : GeomHeights, rotation : GeomRotations, scale : GeomScales]

InitGeom == InitApp /\ geomIn \in GeomInputs

NextGeom == Calculate

SpecGeom == InitGeom /\ [][NextGeom]_vars

\* rotation normalized into [0, 360), in hundredths of a degree, as arithmetic
\* defines it
Normalized(rotation) == rotation.v % (360 * Unit)

Positive(a) == ~IsNaN(a) /\ Sgn(a) > 0

\* C9: for positive width, height and scale, a rotation that normalizes to 0
\* or 180 yields exactly {width*scale, height*scale} and one that normalizes
\* to 90 or 270 yields exactly {height*scale, width*scale}; the trigonometric
\* formula, which misses these values at the non-zero right angles, is not
\* what is returned.
C9_OrthogonalSnapExact ==
  (/\ geomOut # Null
   /\ Positive(geomIn.width) /\ Positive(geomIn.height) /\ Positive(geomIn.scale))
  => LET w == FMul(geomIn.width, geomIn.scale)
         h == FMul(geomIn.height, geomIn.scale)
         n == Normalized(geomIn.rotation)
     IN /\ n \in {0, 180 * Unit} => geomOut[1] = [width |-> w, height |-> h]
        /\ n \in {90 * Unit, 270 * Unit} => geomOut[1] = [width |-> h, height |-> w]

\* C9, reached: a 100x50 image at scale 2 rotated by -90 degrees has been measured as 100x200
C9_Witness ==
  /\ geomOut # Null
  /\ geomIn = [width |-> F(100 * Unit), height |-> F(50 * Unit),
               rotation |-> F(-(90 * Unit)), scale |-> F(2 * Unit)]
  /\ geomOut[1] = [width |-> F(100 * Unit), height |-> F(200 * Unit)]

\* the distance, in hundredths of a degree, from a normalized rotation to the
\* nearest of 0, 90, 180, 270 and 360
ToRightAngle(n) ==
  LET d == n % (90 * Unit) IN IF d > 45 * Unit THEN (90 * Unit) - d ELSE d

\* C32: for every rotation whose normalized value is farther than 0.05
\* degrees from 0, 90, 180, 270 and 360, and width, height and scale that are
\* numbers, the result is width = scaledH*|sin t| + scaledW*|cos t| and
\* height = scaledH*|cos t| + scaledW*|sin t|, with t the rotation,
\* scaledW = width*scale and scaledH = height*scale.
C32_TrigFormula ==
  (/\ geomOut # Null
   /\ IsFin(geomIn.rotation)
   /\ ~IsNaN(geomIn.width) /\ ~IsNaN(geomIn.height) /\ ~IsNaN(geomIn.scale)
   /\ ToRightAngle(Normalized(geomIn.rotation)) > 5)
  => LET scaledW == FMul(geomIn.width, geomIn.scale)
         scaledH == FMul(geomIn.height, geomIn.scale)
         t == F(Normalized(geomIn.rotation))
     IN /\ geomOut[1].width = FAdd(FMulTrig(scaledH, AbsSin(t)), FMulTrig(scaledW, AbsCos(t)))
        /\ geomOut[1].height = FAdd(FMulTrig(scaledH, AbsCos(t)), FMulTrig(scaledW, AbsSin(t)))

\* C32, reached: a 100x50 image at scale 1 rotated by 37 degrees has been
\* measured as 109.95 x 100.11
C32_Witness ==
  /\ geomOut # Null
  /\ geomIn = [width |-> F(100 * Unit), height |-> F(50 * Unit),
               rotation |-> F(37 * Unit), scale |-> F(Unit)]
  /\ geomOut[1] = [width |-> F(10995), height |-> F(10011)]

\* a non-finite scale taken as 1, a non-finite width or height taken as 0
FiniteOr(a, d) == IF IsFin(a) THEN a ELSE d

\* C10: for every combination of finite, NaN, +Infinity and -Infinity scale,
\* width and height, the result is the one computed with a non-finite scale
\* taken as 1 and a non-finite width or height taken as 0, and both returned
\* dimensions are finite numbers.
C10_ResultFinite ==
  geomOut # Null
  => /\ geomOut[1] =
          CalculateRotatedDimensions(FiniteOr(geomIn.width, F(0)),
                                     FiniteOr(geomIn.height, F(0)),
                                     geomIn.rotation,
                                     FiniteOr(geomIn.scale, F(Unit)))
     /\ IsFin(geomOut[1].width)
     /\ IsFin(geomOut[1].height)

\* ------------------------------------------------------------------------
\* The export specification: three imported layers, checked, hidden, moved
\* and exported in both formats
\* ------------------------------------------------------------------------

\* handlers that run in one behaviour of the export specification
MaxExportSteps == 7

PngComma == [name |-> "b,c.png", width |-> F(40 * Unit), height |-> F(40 * Unit), decodes |-> TRUE]

PngQuote == [name |-> "d\"e.png", width |-> F(40 * Unit), height |-> F(40 * Unit), decodes |-> TRUE]

\* values typed into the X and Y fields: -2.5, 2.6 and 2.5
ExportPanelInputs == {[x |-> F(-250)], [x |-> F(260)], [y |-> F(250)]}

ExportFormats == {"json", "csv"}

ExportOps == {"prepareExport." \o format : format \in ExportFormats}

ExportStep(A, op) ==
  /\ steps < MaxExportSteps
  /\ A
  /\ lastOp' = op
  /\ steps' = steps + 1
  /\ UNCHANGED <<geomVars, observerVars>>

NextExport ==
  \/ /\ nextId = 0
     /\ uploads = <<>>
     /\ ExportStep(HandleFileUpload(<<PngA, PngComma, PngQuote>>) /\ UNCHANGED exportModal,
                   "handleFileUpload")
  \/ \E b \in 1..Len(uploads) : \E i \in 1..Len(uploads[b].files) :
       ExportStep(ImgOnload(b, i) /\ UNCHANGED exportModal, "img.onload")
  \/ \E c \in ExportPanelInputs :
       /\ Cardinality(selectedLayerIds) > 0
       /\ ExportStep(UpdateSelectedLayers(c) /\ UNCHANGED exportModal, "updateSelectedLayers")
  \/ \E i \in 1..Len(layers) :
       ExportStep(ToggleVisible(i) /\ UNCHANGED exportModal, "toggleVisible")
  \/ \E id \in LayerIds(layers) :
       ExportStep(ToggleLayerCheck(id) /\ UNCHANGED exportModal, "toggleLayerCheck")
  \/ \E format \in ExportFormats :
       ExportStep(PrepareExport(format), "prepareExport." \o format)

SpecExport == Init /\ [][NextExport]_vars

\* the pieces of text from position start on, cut at the positions cuts
RECURSIVE SplitFrom(_, _, _)
SplitFrom(text, cuts, start) ==
  LET ahead == {i \in cuts : i >= start}
      cut == CHOOSE i \in ahead : \A j \in ahead : i <= j
  IN IF ahead = {} THEN <<SubSeq(text, start, Len(text))>>
     ELSE <<SubSeq(text, start, cut - 1)>> \o SplitFrom(text, cuts, cut + 1)

\* text cut at every occurrence of the character sep
Split(text, sep) == SplitFrom(text, {i \in 1..Len(text) : CharAt(text, i) = sep}, 1)

\* the lines of a text
Lines(text) == Split(text, "\n")

StartsWith(text, prefix) ==
  Len(text) >= Len(prefix) /\ SubSeq(text, 1, Len(prefix)) = prefix

\* the properties of a pretty-printed JSON array of flat objects
JsonKeys == <<"filename", "shift_x", "shift_y", "rotate", "layer_order">>

\* the value written on a line of the form `    "key": value` or
\* `    "key": value,`; the line itself if it does not have that form
JsonValue(line, key) ==
  LET prefix == "    \"" \o key \o "\": "
      rest == SubSeq(line, Len(prefix) + 1, Len(line))
  IN IF ~StartsWith(line, prefix) THEN line
     ELSE IF Len(rest) > 0 /\ CharAt(rest, Len(rest)) = ","
       THEN SubSeq(rest, 1, Len(rest) - 1)
     ELSE rest

\* the objects of a pretty-printed JSON array, each the sequence of its five
\* values as they are written: an object takes seven lines, between the
\* lines of the brackets
JsonObjects(text) ==
  CHOOSE objects \in
    {[k \in 1..((Len(lines) - 2) \div 7) |->
        [j \in 1..5 |-> JsonValue(lines[1 + 7 * (k - 1) + 1 + j], JsonKeys[j])]] :
       lines \in {Lines(text)}} : TRUE

\* the position of the quote that closes a quoted CSV field, scanning line
\* from position i on and skipping doubled quotes; 0 if there is none
RECURSIVE ClosingQuote(_, _)
ClosingQuote(line, i) ==
  IF i > Len(line) THEN 0
  ELSE IF CharAt(line, i) # "\"" THEN ClosingQuote(line, i + 1)
  ELSE IF i < Len(line) /\ CharAt(line, i + 1) = "\"" THEN ClosingQuote(line, i + 2)
  ELSE i

\* the fields of a CSV line whose first field may be quoted
CsvFields(line) ==
  LET close == IF StartsWith(line, "\"") THEN ClosingQuote(line, 2) ELSE 0
  IN IF close > 0 /\ close < Len(line) /\ CharAt(line, close + 1) = ","
       THEN <<SubSeq(line, 1, close)>> \o Split(SubSeq(line, close + 2, Len(line)), ",")
     ELSE IF close > 0 /\ close = Len(line) THEN <<line>>
     ELSE Split(line, ",")

\* inner is name with each character of special written behind the mark
RECURSIVE Escaped(_, _, _, _)
Escaped(inner, name, special, mark) ==
  IF Len(name) = 0 THEN Len(inner) = 0
  ELSE IF CharAt(name, 1) \in special
    THEN /\ Len(inner) >= 2
         /\ SubSeq(inner, 1, 2) = mark \o CharAt(name, 1)
         /\ Escaped(SubSeq(inner, 3, Len(inner)), SubSeq(name, 2, Len(name)), special, mark)
    ELSE /\ Len(inner) >= 1
         /\ CharAt(inner, 1) = CharAt(name, 1)
         /\ Escaped(SubSeq(inner, 2, Len(inner)), SubSeq(name, 2, Len(name)), special, mark)

\* field is name between double quotes, with every double quote of name doubled
IsCsvQuoted(field, name) ==
  /\ Len(field) >= 2
  /\ CharAt(field, 1) = "\"" /\ CharAt(field, Len(field)) = "\""
  /\ Escaped(SubSeq(field, 2, Len(field) - 1), name, {"\""}, "\"")

\* field is the JSON string of name
IsJsonQuoted(field, name) ==
  /\ Len(field) >= 2
  /\ CharAt(field, 1) = "\"" /\ CharAt(field, Len(field)) = "\""
  /\ Escaped(SubSeq(field, 2, Len(field) - 1), name, {"\"", "\\"}, "\\")

\* the records of an exported text, each the sequence of its five fields as
\* they are written
ExportedRecords(modal) ==
  IF modal.type = "text/csv"
    THEN LET rows == Tail(Lines(modal.data))
         IN [k \in 1..Len(rows) |-> CsvFields(rows[k])]
    ELSE JsonObjects(modal.data)

\* field is the quoted form of name in the format of modal
IsQuoted(modal, field, name) ==
  IF modal.type = "text/csv" THEN IsCsvQuoted(field, name) ELSE IsJsonQuoted(field, name)

\* the layers an export is to hold, in sequence order: the checked ones if
\* any layer is checked, all of them otherwise
ExportSource ==
  LET wanted(l) == checkedLayers = {} \/ l.id \in checkedLayers
  IN SelectSeq(layers, wanted)

\* C21: an export holds one record per layer of the export source, in
\* sequence order: the checked layers when the checked set is non-empty, all
\* layers when it is empty, hidden layers included.
C21_ExportSourceSet ==
  [][(lastOp' \in ExportOps /\ Len(ExportSource) > 0)
       => /\ exportModal'.show
          /\ \A records \in {ExportedRecords(exportModal')} :
               /\ Len(records) = Len(ExportSource)
               /\ \A k \in 1..Len(records) :
                    /\ Len(records[k]) = 5
                    /\ IsQuoted(exportModal', records[k][1], ExportSource[k].name)]_vars

\* C21, reached: of three layers the last one is checked and hidden; the CSV
\* export holds that layer alone
C21_Witness ==
  /\ lastOp = "prepareExport.csv"
  /\ Len(layers) = 3
  /\ checkedLayers = {layers[3].id}
  /\ ~layers[3].visible
  /\ Len(ExportedRecords(exportModal)) = 1
  /\ IsCsvQuoted(ExportedRecords(exportModal)[1][1], layers[3].name)

\* C22: in the JSON and in the CSV output the layer_order values of the
\* exported records are 0, 1, ..., n-1 in sequence order: the index within
\* the exported subset, not the index in the full layer sequence.
C22_LayerOrderWithinSubset ==
  [][(lastOp' \in ExportOps /\ Len(ExportSource) > 0)
       => \A records \in {ExportedRecords(exportModal')} :
            /\ Len(records) > 0
            /\ \A k \in 1..Len(records) :
                 Len(records[k]) = 5 /\ records[k][5] = ToString(k - 1)]_vars

\* C22, reached: of three layers only the last is checked, and the JSON
\* export is one record with layer_order 0
C22_Witness ==
  /\ lastOp = "prepareExport.json"
  /\ Len(layers) = 3
  /\ checkedLayers = {layers[3].id}
  /\ Len(ExportedRecords(exportModal)) = 1
  /\ ExportedRecords(exportModal)[1][5] = "0"

\* the integer nearest to a finite a, a half going away from zero, in decimal
NearestIntegerText(a) == ToString(RoundDiv(a.v, Unit))

\* C23: shift_x and shift_y of every exported record are the integers
\* nearest to the layer's x and y, a value halfway between two integers being
\* rounded away from zero, for negative as well as positive coordinates.
C23_ExportRounding ==
  [][(lastOp' \in ExportOps /\ Len(ExportSource) > 0)
       => \A records \in {ExportedRecords(exportModal')} :
            \A k \in 1..Len(records) :
              (k <= Len(ExportSource) /\ Len(records[k]) = 5
                 /\ IsFin(ExportSource[k].x) /\ IsFin(ExportSource[k].y))
                => /\ records[k][2] = NearestIntegerText(ExportSource[k].x)
                   /\ records[k][3] = NearestIntegerText(ExportSource[k].y)]_vars

\* field is written without quotes
Unquoted(field) ==
  Len(field) > 0 /\ \A i \in 1..Len(field) : CharAt(field, i) \notin {"\"", ","}

MaxListSteps == 7

ListStep(A, op) ==
  /\ steps < MaxListSteps
  /\ A
  /\ lastOp' = op
  /\ steps' = steps + 1
  /\ UNCHANGED <<exportModal, geomVars, observerVars>>

NextList ==
  \/ /\ nextId = 0
     /\ uploads = <<>>
     /\ ListStep(HandleFileUpload(<<PngA, PngB, PngComma>>), "handleFileUpload")
  \/ \E b \in 1..Len(uploads) : \E i \in 1..Len(uploads[b].files) :
       ListStep(ImgOnload(b, i), "img.onload")
  \/ \E id \in LayerIds(layers) : ListStep(HandleDragStart(id), "handleDragStart")
  \/ \E id \in LayerIds(layers) : ListStep(HandleDrop(id), "handleDrop")
  \/ ListStep(HandleDragEnd, "handleDragEnd")
  \/ \E id \in LayerIds(layers) :
       ListStep(ToggleLayerSelection(id, TRUE), "toggleLayerSelection")
  \/ \E id \in LayerIds(layers) : ListStep(ToggleLayerCheck(id), "toggleLayerCheck")
  \/ ListStep(DeleteSelectedLayers, "deleteSelectedLayers")
  \/ ListStep(Undo, "undo")
  \/ ListStep(Redo, "redo")

SpecList == Init /\ [][NextList]_vars

\* the ids of a layer sequence, in order
IdsOf(ls) == [i \in 1..Len(ls) |-> ls[i].id]

\* every layer of after is a layer of before, unchanged
LayersKept(before, after) ==
  \A i \in 1..Len(after) :
    /\ after[i].id \in LayerIds(before)
    /\ after[i] = before[FindIndex(before, after[i].id)]

\* the layers with ids in ids are in the same relative order in before and after
SameRelativeOrder(before, after, ids) ==
  \A a, b \in ids :
    (a \in LayerIds(before) /\ b \in LayerIds(before)
       /\ a \in LayerIds(after) /\ b \in LayerIds(after))
      => (FindIndex(before, a) < FindIndex(before, b)
            <=> FindIndex(after, a) < FindIndex(after, b))

\* C25: deleteSelected with a non-empty selection removes exactly the
\* selected layers, keeps every other layer unchanged and in the same
\* relative order, takes the deleted ids out of the checked set and keeps the
\* other checked ids, and leaves the selection empty.
C25_DeleteSelected ==
  [][(lastOp' = "deleteSelectedLayers" /\ selectedLayerIds # {})
       => /\ LayerIds(layers') = LayerIds(layers) \ selectedLayerIds
          /\ Len(layers') = Cardinality(LayerIds(layers'))
          /\ LayersKept(layers, layers')
          /\ SameRelativeOrder(layers, layers', LayerIds(layers'))
          /\ checkedLayers' = checkedLayers \ selectedLayerIds
          /\ selectedLayerIds' = {}]_vars

\* C25, reached: of the layers 1, 2, 3, with 1 and 2 checked, the selected
\* layer 1 was deleted: 2 and 3 are left and 2 is still checked
C25_Witness ==
  /\ lastOp = "deleteSelectedLayers"
  /\ IdsOf(layers) = <<2, 3>>
  /\ checkedLayers = {2}
  /\ selectedLayerIds = {}
  /\ IdsOf(Top(history)) = <<1, 2, 3>>

\* C26: a drop of the dragged layer on another layer of the list is a
\* single-element relocation: the new sequence is a permutation of the old
\* one with the same length, the moved layer is at the index of the target
\* and all other layers keep their relative order; a drop of a layer on
\* itself changes nothing and records no history.
C26_ReorderIsRelocation ==
  [][\A targetId \in LayerIds(layers) :
       (lastOp' = "handleDrop" /\ HandleDrop(targetId))
         => IF draggedLayerId = targetId
              THEN layers' = layers /\ history' = history /\ future' = future
            ELSE draggedLayerId \in LayerIds(layers)
              => /\ Len(layers') = Len(layers)
                 /\ LayerIds(layers') = LayerIds(layers)
                 /\ LayersKept(layers, layers')
                 /\ layers'[FindIndex(layers, targetId)].id = draggedLayerId
                 /\ SameRelativeOrder(layers, layers', LayerIds(layers) \ {draggedLayerId})]_vars

\* C26, reached: the first of the layers 1, 2, 3 was dropped on the last
C26_Witness ==
  /\ lastOp = "handleDrop"
  /\ IdsOf(layers) = <<2, 3, 1>>
  /\ IdsOf(Top(history)) = <<1, 2, 3>>

\* C27: undo with an empty past, redo with an empty future and deleteSelected
\* with an empty selection each leave the layer sequence, past, future,
\* selection and checked set as they are, no snapshot recorded.
C27_SilentNoOps ==
  [][((lastOp' = "undo" /\ history = <<>>)
        \/ (lastOp' = "redo" /\ future = <<>>)
        \/ (lastOp' = "deleteSelectedLayers" /\ selectedLayerIds = {}))
       => UNCHANGED storeVars]_vars

\* C27, reached: Delete was pressed with three layers and nothing selected,
\* and nothing but the snapshot of the upload is on past
C27_Witness ==
  /\ lastOp = "deleteSelectedLayers"
  /\ selectedLayerIds = {}
  /\ Len(layers) = 3
  /\ history = <<<<>>>>
  /\ future = <<>>

\* ------------------------------------------------------------------------
\* The keyboard specification: every key the listeners react to, pressed
\* with the focus on the page and with the focus in a text input
\* ------------------------------------------------------------------------

\* handlers that run in one behaviour of the keyboard specification
MaxKeySteps == 6

\* the event e as it arrives when its target is a text input or not
Focused(e, inInput) == [e EXCEPT !.inInput = inInput]

\* key-downs of an arrow, Delete, Backspace, the undo/redo shortcuts and Space
KeyDowns ==
  {Focused(e, inInput) :
     e \in {Key("ArrowRight", "ArrowRight", FALSE, FALSE, FALSE),
            Key("Delete", "Delete", FALSE, FALSE, FALSE),
            Key("Backspace", "Backspace", FALSE, FALSE, FALSE),
            CtrlZ, CtrlShiftZ, CtrlY, SpaceKey},
     inInput \in BOOLEAN}

\* key-ups of Space
KeyUps == {Focused(SpaceKey, inInput) : inInput \in BOOLEAN}

KeyStep(A, op) ==
  /\ steps < MaxKeySteps
  /\ A
  /\ lastOp' = op
  /\ steps' = steps + 1
  /\ UNCHANGED <<exportModal, geomVars, observerVars>>

NextKeyboard ==
  \/ /\ nextId = 0
     /\ uploads = <<>>
     /\ KeyStep(HandleFileUpload(<<PngA>>), "handleFileUpload")
  \/ \E b \in 1..Len(uploads) : \E i \in 1..Len(uploads[b].files) :
       KeyStep(ImgOnload(b, i), "img.onload")
  \/ \E e \in KeyDowns :
       KeyStep(HandleKeyDown(e), IF e.inInput THEN "keydown.input" ELSE "keydown")
  \/ \E e \in KeyUps :
       KeyStep(HandleKeyUp(e), IF e.inInput THEN "keyup.input" ELSE "keyup")
  \/ KeyStep(HandleMouseDown(Mouse(0, FALSE, FALSE, At(60, 60).x, At(60, 60).y), NoLayer),
             "mousedown")
  \/ KeyStep(HandleMouseUp, "mouseup")

SpecKeyboard == Init /\ [][NextKeyboard]_vars

\* C29: while the focus is on a text input no keyboard event changes the
\* application state: key-downs of arrows, Delete, Backspace, the undo/redo
\* shortcuts and Space, and the key-up of Space, leave layers, selection,
\* checked set, past, future and the interaction mode flags as they are.
C29_InputFocusSuppressesKeys ==
  [][lastOp' \in {"keydown.input", "keyup.input"}
       => UNCHANGED <<storeVars, isDraggingCanvas, isDraggingLayer, isSelecting>>]_vars

\* ------------------------------------------------------------------------
\* The viewport specification: the zoom buttons, the wheel, Reset and Fit,
\* on canvases of several sizes
\* ------------------------------------------------------------------------

\* handlers that run in one behaviour of the viewport specification
MaxViewSteps == 6

\* sizes of the canvas element, in pixels: 800 x 600, 100 x 100, 80 x 600
Viewports ==
  {[clientWidth |-> F(w * Unit), clientHeight |-> F(h * Unit)] :
     <<w, h>> \in {<<800, 600>>, <<100, 100>>, <<80, 600>>}}

\* wheel events: one notch either way and a fast scroll with Ctrl/Cmd, one
\* notch without
WheelEvents ==
  {[ctrlKey |-> TRUE, deltaY |-> F(100 * Unit)],
   [ctrlKey |-> TRUE, deltaY |-> F(-100 * Unit)],
   [ctrlKey |-> TRUE, deltaY |-> F(10000 * Unit)],
   [ctrlKey |-> FALSE, deltaY |-> F(100 * Unit)]}

ViewStep(A, op) ==
  /\ steps < MaxViewSteps
  /\ A
  /\ lastOp' = op
  /\ steps' = steps + 1
  /\ UNCHANGED <<exportModal, geomVars, observerVars>>

NextView ==
  \/ /\ nextId = 0
     /\ uploads = <<>>
     /\ ViewStep(HandleFileUpload(<<PngA>>), "handleFileUpload")
  \/ \E b \in 1..Len(uploads) : \E i \in 1..Len(uploads[b].files) :
       ViewStep(ImgOnload(b, i), "img.onload")
  \/ ViewStep(ZoomOut, "zoomOut")
  \/ ViewStep(ZoomIn, "zoomIn")
  \/ \E e \in WheelEvents : ViewStep(HandleWheel(e), "handleWheel")
  \/ ViewStep(ResetView, "resetView")
  \/ \E viewport \in Viewports : ViewStep(FitToView(viewport), "fitToView")

SpecView == Init /\ [][NextView]_vars

\* C30: the viewport zoom is strictly greater than 0 in every reachable
\* state, after any sequence of zoom-in and zoom-out buttons, ctrl/cmd+wheel,
\* Reset and Fit, for every canvas size and every layout of layers.
C30_ZoomPositive == FLt(F(0), zoom)

\* ------------------------------------------------------------------------
\* The drag specification: two imported layers that are rotated, moved,
\* dragged at a changed zoom, nudged, hidden, reordered, undone and redone
\* ------------------------------------------------------------------------

\* handlers that run in one behaviour of the drag specification
MaxDragSteps == 7

\* values typed into the X and Angle fields: 10 and 397 degrees
DragPanelInputs == {[x |-> F(10 * Unit)], [rotation |-> F(397 * Unit)]}

\* mouse-downs on a layer, at (0,0): plain and with shift
DragDowns == {e \in LayerDowns : ~e.ctrlKey}

\* mouse-moves to (80,70) and to (50,10)
DragMoves == {e \in Moves : ~e.shiftKey}

DragStep(A, op, observe) ==
  /\ steps < MaxDragSteps
  /\ A
  /\ lastOp' = op
  /\ steps' = steps + 1
  /\ observe
  /\ UNCHANGED <<exportModal, geomVars, trail, run>>

NextDrag ==
  \/ /\ nextId = 0
     /\ uploads = <<>>
     /\ DragStep(HandleFileUpload(<<PngA, PngB>>), "handleFileUpload", UNCHANGED down)
  \/ \E b \in 1..Len(uploads) : \E i \in 1..Len(uploads[b].files) :
       DragStep(ImgOnload(b, i), "img.onload", UNCHANGED down)
  \/ \E c \in DragPanelInputs :
       /\ Cardinality(selectedLayerIds) > 0
       /\ DragStep(UpdateSelectedLayers(c), "updateSelectedLayers", UNCHANGED down)
  \/ \E e \in DragDowns : \E id \in VisibleIds :
       DragStep(HandleMouseDown(e, id), "mousedown", ObserveDown(e, id))
  \/ \E e \in DragMoves : DragStep(HandleMouseMove(e), "mousemove", UNCHANGED down)
  \/ DragStep(HandleMouseUp, "mouseup", UNCHANGED down)
  \/ DragStep(ZoomOut, "zoomOut", UNCHANGED down)
  \/ \E e \in ArrowEvents : DragStep(HandleKeyDown(e), "keydown.arrow", UNCHANGED down)
  \/ \E i \in 1..Len(layers) : DragStep(ToggleVisible(i), "toggleVisible", UNCHANGED down)
  \/ \E id \in LayerIds(layers) :
       DragStep(HandleDragStart(id), "handleDragStart", UNCHANGED down)
  \/ \E id \in LayerIds(layers) : DragStep(HandleDrop(id), "handleDrop", UNCHANGED down)
  \/ DragStep(Undo, "undo", UNCHANGED down)
  \/ DragStep(Redo, "redo", UNCHANGED down)

SpecDrag == Init /\ [][NextDrag]_vars

\* the handlers that rewrite layers in place: batch update, drag, nudge and
\* visibility toggle
InPlaceOps == {"updateSelectedLayers", "mousemove", "keydown.arrow", "toggleVisible"}

\* C31: a layer's id, width and height are fixed at creation: a batch update,
\* a drag move, a nudge and a visibility toggle leave every layer in its place
\* with its id, width and height; after any step, a reorder, an undo and a
\* redo included, a layer that is still in the sequence has the width and
\* height it had, and a reorder keeps the ids; and the rotation a batch update
\* stores in the selected layers is the entered value itself, not the value
\* normalized into [0,360).
C31_IdAndSizeFixed ==
  [][/\ lastOp' \in InPlaceOps
          => /\ Len(layers') = Len(layers)
             /\ \A i \in 1..Len(layers) :
                  /\ layers'[i].id = layers[i].id
                  /\ layers'[i].width = layers[i].width
                  /\ layers'[i].height = layers[i].height
     /\ \A i \in 1..Len(layers) : \A j \in 1..Len(layers') :
          layers'[j].id = layers[i].id
            => layers'[j].width = layers[i].width /\ layers'[j].height = layers[i].height
     /\ lastOp' = "handleDrop"
          => Len(layers') = Len(layers) /\ LayerIds(layers') = LayerIds(layers)
     /\ \A c \in DragPanelInputs :
          (/\ lastOp' = "updateSelectedLayers" /\ UpdateSelectedLayers(c)
           /\ "rotation" \in DOMAIN c)
            => \A i \in 1..Len(layers) :
                 layers[i].id \in selectedLayerIds => layers'[i].rotation = c.rotation]_vars

\* C31, reached: a.png was given the angle 397, the update was undone and
\* redone, and a.png is 100x50 with rotation 397
C31_Witness ==
  /\ lastOp = "redo"
  /\ Len(layers) = 2
  /\ layers[1].name = "a.png"
  /\ layers[1].rotation = F(397 * Unit)
  /\ layers[1].width = F(100 * Unit)
  /\ layers[1].height = F(50 * Unit)

\* a pointer-move reaches the layer-drag branch of handleMouseMove
LayerDragging == isDraggingLayer /\ ~isDraggingCanvas

\* C33: in a DragLayer, after every pointer-move each layer that was selected
\* at pointer-down is at its own position at pointer-down plus the pointer's
\* delta since pointer-down divided by the current zoom, with no other field
\* changed, and every layer that was not selected at pointer-down is unchanged.
C33_DragFromStartPositions ==
  [][\A e \in DragMoves :
       (lastOp' = "mousemove" /\ LayerDragging /\ down.drag /\ HandleMouseMove(e))
         => /\ Len(layers') = Len(layers)
            /\ \A i \in 1..Len(layers) :
                 IF layers[i].id \in down.selected
                   THEN layers'[i] =
                          [layers[i] EXCEPT
                             !.x = FAdd(down.positions[layers[i].id].x,
                                        FDiv(FSub(e.clientX, down.at.x), zoom)),
                             !.y = FAdd(down.positions[layers[i].id].y,
                                        FDiv(FSub(e.clientY, down.at.y), zoom))]
                   ELSE layers'[i] = layers[i]]_vars

\* C33, reached: a.png was at (10,0) and b.png at (0,0) when both were picked
\* up at zoom 0.9; the pointer went from (0,0) to (80,70), and a.png is at
\* (98.89,77.78), b.png at (88.89,77.78)
C33_Witness ==
  /\ lastOp = "mousemove"
  /\ LayerDragging
  /\ zoom = F(90)
  /\ Len(layers) = 2
  /\ down.selected = {layers[1].id, layers[2].id}
  /\ layers[1].x = F(9889) /\ layers[1].y = F(7778)
  /\ layers[2].x = F(8889) /\ layers[2].y = F(7778)

\* ------------------------------------------------------------------------
\* The checkbox specification: two imports, the checkboxes, the eye icon,
\* delete, undo, redo and export
\* ------------------------------------------------------------------------

\* handlers that run in one behaviour of the checkbox specification
MaxCheckSteps == 7

\* the files of the first and of the second import
CheckUploads == <<PngA, PngB>>

CheckStep(A, op) ==
  /\ steps < MaxCheckSteps
  /\ A
  /\ lastOp' = op
  /\ steps' = steps + 1
  /\ UNCHANGED <<geomVars, observerVars>>

NextChecks ==
  \/ /\ nextId < Len(CheckUploads)
     /\ uploads = <<>>
     /\ CheckStep(HandleFileUpload(<<CheckUploads[nextId + 1]>>) /\ UNCHANGED exportModal,
                  "handleFileUpload")
  \/ \E b \in 1..Len(uploads) : \E i \in 1..Len(uploads[b].files) :
       CheckStep(ImgOnload(b, i) /\ UNCHANGED exportModal, "img.onload")
  \/ \E id \in LayerIds(layers) :
       CheckStep(ToggleLayerCheck(id) /\ UNCHANGED exportModal, "toggleLayerCheck")
  \/ /\ Len(layers) > 0
     /\ CheckStep(ToggleAllChecks /\ UNCHANGED exportModal, "toggleAllChecks")
  \/ \E i \in 1..Len(layers) :
       CheckStep(ToggleVisible(i) /\ UNCHANGED exportModal, "toggleVisible")
  \/ CheckStep(DeleteSelectedLayers /\ UNCHANGED exportModal, "deleteSelectedLayers")
  \/ CheckStep(Undo /\ UNCHANGED exportModal, "undo")
  \/ CheckStep(Redo /\ UNCHANGED exportModal, "redo")
  \/ \E format \in ExportFormats :
       CheckStep(PrepareExport(format), "prepareExport." \o format)

SpecChecks == Init /\ [][NextChecks]_vars

\* C35: toggle-all empties the checked set if it is exactly the set of the
\* ids of all current layers (and there is a layer), and makes it exactly that
\* set otherwise.
C35_ToggleAllChecked ==
  [][lastOp' = "toggleAllChecks"
       => checkedLayers' =
            IF checkedLayers = LayerIds(layers) /\ Len(layers) > 0
              THEN {}
              ELSE LayerIds(layers)]_vars

\* the operations that toggle a checkbox
CheckboxOps == {"toggleLayerCheck", "toggleAllChecks"}

\* C36: a visibility toggle, a toggle of one checkbox and toggle-all push no
\* snapshot and leave past and future as they are; the checkbox toggles leave
\* the layer sequence and the selection as they are, and a visibility toggle
\* changes the visible field of the targeted layer and nothing else.
C36_TogglesAreNotRecorded ==
  [][/\ lastOp' \in CheckboxOps \cup {"toggleVisible"} => UNCHANGED <<history, future>>
     /\ lastOp' \in CheckboxOps => UNCHANGED <<layers, selectedLayerIds>>
     /\ \A i \in 1..Len(layers) :
          (lastOp' = "toggleVisible" /\ ToggleVisible(i))
            => /\ layers' = [layers EXCEPT ![i].visible = ~layers[i].visible]
               /\ UNCHANGED <<selectedLayerIds, checkedLayers>>]_vars

\* C36, reached: with a snapshot on past and one on future, the one layer has
\* been hidden
C36_Witness ==
  /\ lastOp = "toggleVisible"
  /\ Len(history) = 1
  /\ Len(future) = 1
  /\ Len(layers) = 1
  /\ ~layers[1].visible

\* C38: in every state with a non-empty layer sequence, a request for a JSON
\* or CSV export opens the preview with at least one record, whatever the
\* checked set holds.
C38_ExportAvailable ==
  [][(lastOp' \in ExportOps /\ Len(layers) > 0)
       => /\ exportModal'.show
          /\ Len(ExportedRecords(exportModal')) >= 1]_vars

====
